---- MODULE Spec2Model ----
(***************************************************************************)
(* A model of the browser-driven image engine: the three-tier downloader   *)
(* (src/src/infrastructure/ai/downloader.py), the workflow orchestrators   *)
(* (src/src/application), the browser service, the navigator's login       *)
(* detection, the value objects (src/src/domain/value_objects), the bot's   *)
(* handlers (src/src/presentation), the use cases with their progress      *)
(* notifier, the AI service facade and the retry decorator.  Each          *)
(* component has its own specification over the shared variables; a        *)
(* component that a specification does not drive stays in its initial      *)
(* state.                                                                  *)
(***************************************************************************)
EXTENDS Integers, Sequences, FiniteSets, TLC

VARIABLES
    files,      \* the file system: a sequence of file records in listing order
    dirs,       \* the search directories that exist on disk
    now,        \* time.time(), in seconds
    nextId,     \* source of fresh uuid4().hex[:8] values
    dl_pc,      \* position of ImageDownloaderService.download
    dl_sel,     \* index of the download-button selector being tried
    dl_trace,   \* the tiers attempted so far, in order
    dl_clicks,  \* number of download-button clicks made by this download
    dl_result,  \* how download() finished
    lastScan,   \* the last run of _find_chrome_download: its inputs and outcome
    browser,    \* per browser object: its driver field and the drivers it made
    br_last,    \* the last start/stop call on a browser object and its outcome
    wf_kind,    \* which orchestrator runs: the use case or one of the strategies
    wf_target,  \* request.target_count
    wf_prompt,  \* whether context.system_prompt is non-empty
    wf_pc,      \* position of the orchestrator's execute()
    wf_i,       \* number of loop iterations of the image loop that have run
    wf_images,  \* the images generate_image has returned, in order
    wf_errors,  \* the phases in which the AI/browser service raised, with the error
    wf_outcome, \* what the try block produced, pending the finally block
    wf_result,  \* what execute() handed to its caller
    wf_stops,   \* number of browser_service.stop() calls made by the finally block
    wf_calls,   \* the calls execute() made on its services, and the browser it met
    page,       \* the page as the navigator sees it: selector lookups and URL
    nav_result, \* outcome of the last is_logged_in call
    nav_chk,    \* the last check_session call: what it met and what it returned
    nav_chat,   \* the last start_new_chat call: its driver calls and how it ended
    up_pc,      \* position of GeminiImageUploader.upload_image
    up_now,     \* the clock of the upload, in seconds
    up_polls,   \* the polls _verify_upload has made: when, and what each saw
    up_result,  \* how upload_image ended
    rs_pc,      \* position of the prompt manager: wait_for_response, get_response_text
    rs_in,      \* what the response-container candidates hold on the page
    rs_wait,    \* how wait_for_response went
    rs_out,     \* what get_response_text returned or raised, and the candidates it tried
    tl_in,      \* what the tools menu holds when select_image_generation_tool runs
    tl_out,     \* what select_image_generation_tool returned and what it clicked
    ph_kind,    \* the orchestrator whose request is followed phase by phase
    ph_target,  \* the number of images that request asks for
    ph_pc,      \* the phase the request is at: image (0 = analysis), index, position
    ph_trace,   \* the phase events of the request so far: start, return, raise
    cn_state,   \* the conversation state of the count dialogue
    cn_data,    \* context.user_data: the saved photo, and whether its file exists
    cn_last,    \* the last handle_count call: the text, the error, the reply
    pt_in,      \* the text and the limit given to Prompt and Prompt.truncate
    pt_out,     \* what Prompt(text) and truncate(limit) gave
    sb_in,      \* the system prompt of the configuration and the answer of the app
    sb_pc,      \* position of the request whose submitted prompts are followed
    sb_sent,    \* the texts handed to send_prompt so far, in order
    hq_in,      \* the URL given to _get_high_quality_url
    hq_out,     \* the URL it returned
    gn_in,      \* what the page does during one generate_image call
    gn_pc,      \* position of GeminiAIService.generate_image
    gn_trace,   \* the sub-module calls generate_image has made, in order
    gn_result,  \* how generate_image ended
    bt_queue,   \* the updates received and not yet taken up, oldest first
    bt_sent,    \* number of updates the users have sent
    bt_conv,    \* per user: the state of the count conversation
    bt_data,    \* per user: context.user_data
    bt_tasks,   \* the handlers begun so far, each with the step it is at
    bt_running, \* browser_service.is_running()
    bt_log,     \* the browser operations performed, in order, each with its handler
    bt_cancel,  \* the last cancel: the state it met and the state it left
    cx_ctx,     \* the ProcessContext handed to GenerateImagesUseCase.execute
    cx_pc,      \* position of GenerateImagesUseCase.execute
    cx_i,       \* number of loop iterations completed
    cx_exc,     \* the exception the except clause caught
    cx_hist,    \* the values context.status has had, in order
    cx_out,     \* what execute returned or raised
    nt_obj,     \* the fields of the ProgressNotifierService
    nt_now,     \* time.time(), in half seconds
    nt_sent,    \* the texts delivered through update_callback, in order
    nt_log,     \* the calls made on the notifier, and where the first summary fell
    gi_in,      \* the count given to GenerateImageUseCase.execute, and whether a notifier
    gi_pc,      \* position of GenerateImageUseCase.execute
    gi_i,       \* the loop variable i
    gi_images,  \* generated_images
    gi_tried,   \* the loop iterations finished so far, each with how it went
    gi_out,     \* what execute returned or raised
    rt_in,      \* the arguments given to retry_on_exception
    rt_pc,      \* position of the wrapper
    rt_attempt, \* the loop variable attempt
    rt_delay,   \* current_delay
    rt_last,    \* last_exception
    rt_log,     \* the invocations, on_retry calls and sleeps so far, in order
    rt_out,     \* what the wrapper returned or raised
    sv_browser, \* the SeleniumBrowserService the AI service was given
    sv_mods,    \* per sub-module of GeminiAIService: the driver it was built on
    sv_last,    \* the last method call on the service: the drivers its operations met
    rq_target,  \* the number of images the request asks for
    rq_files,   \* the files of images_dir, in listing order
    rq_now,     \* time.time(), in seconds
    rq_i,       \* the images of the request handled so far
    rq_paths    \* the paths download() returned for them, in order

dlVars == <<files, dirs, now, nextId, dl_pc, dl_sel, dl_trace, dl_clicks,
            dl_result, lastScan>>
brVars == <<browser, br_last>>
wfVars == <<wf_kind, wf_target, wf_prompt, wf_pc, wf_i, wf_images, wf_errors,
            wf_outcome, wf_result, wf_stops, wf_calls>>
navVars == <<page, nav_result, nav_chk, nav_chat>>
upVars == <<up_pc, up_now, up_polls, up_result>>
rsVars == <<rs_pc, rs_in, rs_wait, rs_out>>
tlVars == <<tl_in, tl_out>>
phVars == <<ph_kind, ph_target, ph_pc, ph_trace>>
gmVars == <<upVars, rsVars, tlVars, phVars>>
coreVars == <<dlVars, brVars, wfVars, navVars, gmVars>>
cnVars == <<cn_state, cn_data, cn_last>>
ptVars == <<pt_in, pt_out>>
sbVars == <<sb_in, sb_pc, sb_sent>>
hqVars == <<hq_in, hq_out>>
gnVars == <<gn_in, gn_pc, gn_trace, gn_result>>
btVars == <<bt_queue, bt_sent, bt_conv, bt_data, bt_tasks, bt_running, bt_log, bt_cancel>>
appVars == <<cnVars, ptVars, sbVars, hqVars, gnVars, btVars>>
cxVars == <<cx_ctx, cx_pc, cx_i, cx_exc, cx_hist, cx_out>>
ntVars == <<nt_obj, nt_now, nt_sent, nt_log>>
giVars == <<gi_in, gi_pc, gi_i, gi_images, gi_tried, gi_out>>
rtVars == <<rt_in, rt_pc, rt_attempt, rt_delay, rt_last, rt_log, rt_out>>
svVars == <<sv_browser, sv_mods, sv_last>>
rqVars == <<rq_target, rq_files, rq_now, rq_i, rq_paths>>
cxRest == <<ntVars, giVars, rtVars, svVars, rqVars>>
ntRest == <<cxVars, giVars, rtVars, svVars, rqVars>>
giRest == <<cxVars, rtVars, svVars, rqVars>>
rtRest == <<cxVars, ntVars, giVars, svVars, rqVars>>
svRest == <<cxVars, ntVars, giVars, rtVars, rqVars>>
rqRest == <<cxVars, ntVars, giVars, rtVars, svVars>>
extVars == <<cxVars, ntVars, giVars, rtVars, svVars, rqVars>>
vars == <<coreVars, appVars, extVars>>

----------------------------------------------------------------------------
(* Bounds of the model *)

MaxFiles == 2        \* files on disk before download() is called
StartNow == 100      \* the clock when download() is called

(* Program constants *)

FreshWindow == 30    \* "time.time() - file_time < 30"
LoadSleep == 3       \* time.sleep(3) before the URL lookup
ImageClickSleep == 2 \* time.sleep(2) after opening the lightbox
ImageClickWait == 20 \* WebDriverWait(self.driver, 20)
ClickSleep == 5      \* time.sleep(5) after a download-button click

OutDir == "out"                  \* self.download_dir
HomeDirs == {"indirilenler", "downloads"}
SearchDirs == <<OutDir, "indirilenler", "downloads">>
ImageSuffixes == {"png", "jpg", "jpeg", "webp"}
DownloadSelectors == <<"tam_boyutlu_indir", "indir", "download">>

NoPath == [dir |-> "", kind |-> "", id |-> 0, ext |-> ""]
NoScan == [ran |-> FALSE, files |-> <<>>, dirs |-> {}, now |-> 0, out |-> "",
           chosen |-> 0, path |-> NoPath]
NoResult == [status |-> "none", path |-> NoPath, exc |-> "", msg |-> ""]

(* str.lower() on the suffixes that occur in the model *)
Lower(s) ==
    CASE s = "PNG" -> "png"
      [] s = "JPG" -> "jpg"
      [] OTHER -> s

(* Path of a file record *)
PathOf(f) == [dir |-> f.dir, kind |-> f.kind, id |-> f.id, ext |-> f.ext]

(* The shapes a file found on disk before the download can have: an image  *)
(* with a foreign name, an earlier generated_<hex> artifact, a non-image.  *)
InitShapes == {[kind |-> "other", ext |-> "png"],
               [kind |-> "generated", ext |-> "JPG"],
               [kind |-> "other", ext |-> "gif"]}
InitCTimes == {StartNow - 40, StartNow - 20, StartNow}

InitFileSeqs(ds) ==
    UNION {[1..n -> {[dir |-> d, kind |-> s.kind, id |-> 0, ext |-> s.ext, ctime |-> c] :
                        d \in ds, s \in InitShapes, c \in InitCTimes}]
           : n \in 0..MaxFiles}

(* Files get the distinct ids 1..n so that no two share a name *)
Numbered(fs) == [i \in 1..Len(fs) |-> [fs[i] EXCEPT !.id = i]]

----------------------------------------------------------------------------
(* _find_chrome_download: the scan *)

RECURSIVE IdxInDir(_, _, _)
IdxInDir(fs, d, k) ==
    IF k > Len(fs) THEN <<>>
    ELSE IF fs[k].dir = d THEN <<k>> \o IdxInDir(fs, d, k + 1)
    ELSE IdxInDir(fs, d, k + 1)

RECURSIVE ScanOrder(_, _, _)
ScanOrder(fs, ds, j) ==
    IF j > Len(SearchDirs) THEN <<>>
    ELSE IF SearchDirs[j] \notin ds THEN ScanOrder(fs, ds, j + 1)
    ELSE IdxInDir(fs, SearchDirs[j], 1) \o ScanOrder(fs, ds, j + 1)

(* Mutant: the scan without the freshness test *)
QualifiesAnyAge(f, t, latest) ==
    /\ Lower(f.ext) \in ImageSuffixes
    /\ f.ctime > latest.time

Qualifies(f, t, latest) ==
    /\ Lower(f.ext) \in ImageSuffixes
    /\ t - f.ctime < FreshWindow
    /\ f.ctime > latest.time

RECURSIVE ScanFrom(_, _, _, _, _)
ScanFrom(fs, order, k, t, latest) ==
    IF k > Len(order) THEN latest
    ELSE IF Qualifies(fs[order[k]], t, latest)
         THEN ScanFrom(fs, order, k + 1, t,
                       [file |-> order[k], time |-> fs[order[k]].ctime])
         ELSE ScanFrom(fs, order, k + 1, t, latest)

LatestFile(fs, ds, t) ==
    ScanFrom(fs, ScanOrder(fs, ds, 1), 1, t, [file |-> 0, time |-> 0]).file

(* Mutant: a moved file keeps its own name *)
MovedFileKeepsName(f, id, t) == [f EXCEPT !.dir = OutDir, !.ctime = t]

(* The name a moved file gets: generated_<hex>.png *)
MovedFile(f, id, t) ==
    [dir |-> OutDir, kind |-> "generated", id |-> id, ext |-> "png", ctime |-> t]

(* The whole of _find_chrome_download on file system fs at time t, id the *)
(* fresh hex value; io = FALSE when shutil.move() raises OSError.           *)
(* out: "path" (returned), "DownloadError" or "OSError" (raised).           *)
FindChromeDownload(fs, ds, t, id, io) ==
    LET i == LatestFile(fs, ds, t) IN
    IF i = 0
    THEN [out |-> "DownloadError", files |-> fs, path |-> NoPath, chosen |-> 0]
    ELSE IF fs[i].dir # OutDir
         THEN IF io
              THEN [out |-> "path", files |-> [fs EXCEPT ![i] = MovedFile(fs[i], id, t)],
                    path |-> PathOf(MovedFile(fs[i], id, t)), chosen |-> i]
              ELSE [out |-> "OSError", files |-> fs, path |-> NoPath, chosen |-> i]
         ELSE [out |-> "path", files |-> fs, path |-> PathOf(fs[i]), chosen |-> i]

ScanRecord(fs, ds, t, r) ==
    [ran |-> TRUE, files |-> fs, dirs |-> ds, now |-> t, out |-> r.out,
     chosen |-> r.chosen, path |-> r.path]

----------------------------------------------------------------------------
(* ImageDownloaderService.download *)

TierOrder == <<"direct", "button", "scan">>

Returned(p) == [status |-> "path", path |-> p, exc |-> "", msg |-> ""]
Raised(e, m) == [status |-> "raised", path |-> NoPath, exc |-> e, msg |-> m]

(* The trace holds one entry per tier attempted: the tier and how it ended *)
Began(tr, tier) == Append(tr, [tier |-> tier, out |-> "running"])
Ended(tr, out) == [tr EXCEPT ![Len(tr)].out = out]

DlInit ==
    /\ dirs \in {{OutDir}} \cup {{OutDir, h} : h \in HomeDirs}
    /\ files \in {Numbered(fs) : fs \in InitFileSeqs(dirs)}
    /\ now = StartNow
    /\ nextId = Len(files) + 1
    /\ dl_pc = "idle"
    /\ dl_sel = 0
    /\ dl_trace = <<>>
    /\ dl_clicks = 0
    /\ dl_result = NoResult
    /\ lastScan = NoScan

(* download(), lines 44-55: sleep, locate the URL; no URL raises at once.  *)
(* _find_image_url turns a script exception into None.                     *)
DownloadFindUrl ==
    /\ dl_pc = "idle"
    /\ now' = now + LoadSleep
    /\ \E url \in {"found", "null", "throws"} :
         IF url = "found"
         THEN /\ dl_pc' = "tier1"
              /\ dl_result' = dl_result
         ELSE /\ dl_pc' = "raised"
              /\ dl_result' = Raised("DownloadError", "no_url")
    /\ UNCHANGED <<files, dirs, nextId, dl_sel, dl_trace, dl_clicks, lastScan>>
    /\ UNCHANGED <<brVars, wfVars, navVars, gmVars, appVars, extVars>>

(* Mutant: a failed direct fetch goes straight to the scan tier *)
DownloadViaRequestsSkipsButton ==
    /\ dl_pc = "tier1"
    /\ \E out \in {"ok", "failed"} :
         IF out = "ok"
         THEN   LET f == [dir |-> OutDir, kind |-> "generated", id |-> nextId,
                          ext |-> "png", ctime |-> now] IN
                /\ files' = Append(files, f)
                /\ nextId' = nextId + 1
                /\ dl_pc' = "returned"
                /\ dl_trace' = Ended(Began(dl_trace, "direct"), "ok")
                /\ dl_result' = Returned(PathOf(f))
         ELSE /\ dl_pc' = "tier3"
              /\ dl_trace' = Ended(Began(dl_trace, "direct"), "failed")
              /\ UNCHANGED <<files, nextId, dl_result>>
    /\ UNCHANGED <<dirs, now, dl_sel, dl_clicks, lastScan>>
    /\ UNCHANGED <<brVars, wfVars, navVars, gmVars, appVars, extVars>>

(* download(), lines 57-61 with _download_via_requests: any exception of   *)
(* the tier is caught and the button tier comes next.                      *)
DownloadViaRequests ==
    /\ dl_pc = "tier1"
    /\ \E out \in {"ok", "status_not_200", "request_throws", "driver_throws",
                   "write_throws"} :
         IF out = "ok"
         THEN   LET f == [dir |-> OutDir, kind |-> "generated", id |-> nextId,
                          ext |-> "png", ctime |-> now] IN
                /\ files' = Append(files, f)
                /\ nextId' = nextId + 1
                /\ dl_pc' = "returned"
                /\ dl_trace' = Ended(Began(dl_trace, "direct"), "ok")
                /\ dl_result' = Returned(PathOf(f))
         ELSE /\ dl_pc' = "tier2"
              /\ dl_trace' = Ended(Began(dl_trace, "direct"), "failed")
              /\ UNCHANGED <<files, nextId, dl_result>>
    /\ UNCHANGED <<dirs, now, dl_sel, dl_clicks, lastScan>>
    /\ UNCHANGED <<brVars, wfVars, navVars, gmVars, appVars, extVars>>

(* _download_via_button, lines 128-140: open the lightbox; a failure to do *)
(* so is ignored.                                                          *)
DownloadViaButtonOpen ==
    /\ dl_pc = "tier2"
    /\ dl_trace' = Began(dl_trace, "button")
    /\ \E opened \in BOOLEAN :
         now' = now + (IF opened THEN ImageClickSleep ELSE ImageClickWait)
    /\ dl_pc' = "tier2_sel"
    /\ dl_sel' = 1
    /\ UNCHANGED <<files, dirs, nextId, dl_clicks, dl_result, lastScan>>
    /\ UNCHANGED <<brVars, wfVars, navVars, gmVars, appVars, extVars>>

(* _download_via_button, lines 149-158: one turn of the selector loop.     *)
(* A click may make the browser save a file into its download directory,   *)
(* which the container sets to the output directory.                       *)
DownloadButtonTry ==
    /\ dl_pc = "tier2_sel"
    /\ dl_sel <= Len(DownloadSelectors)
    /\ \E out \in {"absent", "click_throws", "clicked"} :
         IF out # "clicked"
         THEN /\ dl_sel' = dl_sel + 1
              /\ UNCHANGED <<files, now, nextId, dl_pc, dl_trace, dl_clicks,
                             dl_result, lastScan>>
         ELSE \E saved \in BOOLEAN, io \in BOOLEAN :
                LET f == [dir |-> OutDir, kind |-> "chrome", id |-> nextId,
                          ext |-> "png", ctime |-> now]
                    fs == IF saved THEN Append(files, f) ELSE files
                    id == IF saved THEN nextId + 1 ELSE nextId
                    t == now + ClickSleep
                    r == FindChromeDownload(fs, dirs, t, id, io)
                IN  /\ dl_clicks' = dl_clicks + 1
                    /\ now' = t
                    /\ files' = r.files
                    /\ nextId' = id + 1
                    /\ lastScan' = ScanRecord(fs, dirs, t, r)
                    /\ IF r.out = "path"
                       THEN /\ dl_pc' = "returned"
                            /\ dl_trace' = Ended(dl_trace, "ok")
                            /\ dl_result' = Returned(r.path)
                            /\ dl_sel' = dl_sel
                       ELSE /\ dl_sel' = dl_sel + 1
                            /\ UNCHANGED <<dl_pc, dl_trace, dl_result>>
    /\ UNCHANGED dirs
    /\ UNCHANGED <<brVars, wfVars, navVars, gmVars, appVars, extVars>>

(* _download_via_button, line 160, caught at download() lines 66-67 *)
DownloadButtonNotFound ==
    /\ dl_pc = "tier2_sel"
    /\ dl_sel > Len(DownloadSelectors)
    /\ dl_pc' = "tier3"
    /\ dl_trace' = Ended(dl_trace, "failed")
    /\ UNCHANGED <<files, dirs, now, nextId, dl_sel, dl_clicks, dl_result, lastScan>>
    /\ UNCHANGED <<brVars, wfVars, navVars, gmVars, appVars, extVars>>

(* Mutant: the scan tier without its try/except *)
DownloadScanUncaught ==
    /\ dl_pc = "tier3"
    /\ \E io \in BOOLEAN :
         LET r == FindChromeDownload(files, dirs, now, nextId, io) IN
         /\ files' = r.files
         /\ nextId' = nextId + 1
         /\ lastScan' = ScanRecord(files, dirs, now, r)
         /\ IF r.out = "path"
            THEN /\ dl_pc' = "returned"
                 /\ dl_trace' = Ended(Began(dl_trace, "scan"), "ok")
                 /\ dl_result' = Returned(r.path)
            ELSE /\ dl_pc' = "raised"
                 /\ dl_trace' = Ended(Began(dl_trace, "scan"), "failed")
                 /\ dl_result' = Raised(r.out, "scan_failed")
    /\ UNCHANGED <<dirs, now, dl_sel, dl_clicks>>
    /\ UNCHANGED <<brVars, wfVars, navVars, gmVars, appVars, extVars>>

(* download(), lines 69-75: the scan tier; whatever it raises is caught   *)
(* and download() raises DownloadError("Tüm indirme yöntemleri başarısız") *)
DownloadScan ==
    /\ dl_pc = "tier3"
    /\ \E io \in BOOLEAN :
         LET r == FindChromeDownload(files, dirs, now, nextId, io) IN
         /\ files' = r.files
         /\ nextId' = nextId + 1
         /\ lastScan' = ScanRecord(files, dirs, now, r)
         /\ IF r.out = "path"
            THEN /\ dl_pc' = "returned"
                 /\ dl_trace' = Ended(Began(dl_trace, "scan"), "ok")
                 /\ dl_result' = Returned(r.path)
            ELSE /\ dl_pc' = "raised"
                 /\ dl_trace' = Ended(Began(dl_trace, "scan"), "failed")
                 /\ dl_result' = Raised("DownloadError", "all_failed")
    /\ UNCHANGED <<dirs, now, dl_sel, dl_clicks>>
    /\ UNCHANGED <<brVars, wfVars, navVars, gmVars, appVars, extVars>>

DlNext ==
    \/ DownloadFindUrl
    \/ DownloadViaRequests
    \/ DownloadViaButtonOpen
    \/ DownloadButtonTry
    \/ DownloadButtonNotFound
    \/ DownloadScan

----------------------------------------------------------------------------
(* The browser objects: SeleniumBrowserService and the legacy BrowserManager *)

MaxDrivers == 3      \* drivers one browser object may create in a run

BrowserObjs == {"service", "manager"}

NoBrowser == [driver |-> 0, created |-> 0, live |-> {}]
NoCall == [obj |-> "", op |-> "", before |-> NoBrowser, raised |-> FALSE]

(* is_running(): self.driver is not None *)
IsRunning(b) == b.driver # 0

(* Mutant: start() without the already-running guard *)
StartBrowserAgain(b, out) ==
    CASE out = "ok" ->
           [b |-> [driver |-> b.created + 1, created |-> b.created + 1,
                   live |-> b.live \cup {b.created + 1}],
            raised |-> FALSE]
      [] out = "no_driver" -> [b |-> b, raised |-> TRUE]
      [] OTHER ->
           [b |-> [driver |-> b.created + 1, created |-> b.created + 1,
                   live |-> b.live \cup {b.created + 1}],
            raised |-> TRUE]

(* start(): a running browser is left alone; otherwise a driver is made.   *)
(* out = "no_driver": creating the driver threw; "no_window": the driver   *)
(* was made and stored, then maximize_window() threw.  Both raise          *)
(* BrowserError.                                                           *)
StartBrowser(b, out) ==
    IF b.driver # 0
    THEN [b |-> b, raised |-> FALSE]
    ELSE CASE out = "ok" ->
                [b |-> [driver |-> b.created + 1, created |-> b.created + 1,
                        live |-> b.live \cup {b.created + 1}],
                 raised |-> FALSE]
           [] out = "no_driver" -> [b |-> b, raised |-> TRUE]
           [] OTHER ->
                [b |-> [driver |-> b.created + 1, created |-> b.created + 1,
                        live |-> b.live \cup {b.created + 1}],
                 raised |-> TRUE]

(* Mutant: stop() without the finally clause: a failed quit keeps the driver *)
StopBrowserNoFinally(b, quitOk) ==
    IF b.driver = 0
    THEN [b |-> b, raised |-> FALSE]
    ELSE IF quitOk
         THEN [b |-> [b EXCEPT !.driver = 0, !.live = b.live \ {b.driver}],
               raised |-> FALSE]
         ELSE [b |-> b, raised |-> FALSE]

(* stop() / close(): quit the driver if there is one; an exception of      *)
(* quit() is logged, and the driver field is cleared either way.           *)
StopBrowser(b, quitOk) ==
    IF b.driver = 0
    THEN [b |-> b, raised |-> FALSE]
    ELSE [b |-> [b EXCEPT !.driver = 0,
                          !.live = IF quitOk THEN b.live \ {b.driver} ELSE b.live],
          raised |-> FALSE]

StartOutcomes == {"ok", "no_driver", "no_window"}

BrIdle ==
    /\ browser = [o \in BrowserObjs |-> NoBrowser]
    /\ br_last = NoCall

BrStart(o) ==
    /\ IsRunning(browser[o]) \/ browser[o].created < MaxDrivers
    /\ \E out \in StartOutcomes :
         LET r == StartBrowser(browser[o], out) IN
         /\ browser' = [browser EXCEPT ![o] = r.b]
         /\ br_last' = [obj |-> o, op |-> "start", before |-> browser[o],
                        raised |-> r.raised]
    /\ UNCHANGED <<dlVars, wfVars, navVars, gmVars, appVars, extVars>>

BrStop(o) ==
    /\ \E quitOk \in BOOLEAN :
         LET r == StopBrowser(browser[o], quitOk) IN
         /\ browser' = [browser EXCEPT ![o] = r.b]
         /\ br_last' = [obj |-> o, op |-> "stop", before |-> browser[o],
                        raised |-> r.raised]
    /\ UNCHANGED <<dlVars, wfVars, navVars, gmVars, appVars, extVars>>

(* SeleniumBrowserService.start / stop *)
ServiceStart == BrStart("service")
ServiceStop == BrStop("service")

(* BrowserManager.start / close *)
ManagerStart == BrStart("manager")
ManagerClose == BrStop("manager")

BrNext == ServiceStart \/ ServiceStop \/ ManagerStart \/ ManagerClose

----------------------------------------------------------------------------
(* The orchestrators: ProcessImageWorkflowUseCase and the two strategies *)

MaxCount == 3        \* largest request.target_count explored

WorkflowKinds == {"use_case", "analyze_generate", "direct"}

(* src/src/domain/exceptions.py: the classes deriving from DomainException *)
DomainClasses == {"DomainException", "ValidationError", "ImageProcessingError",
                  "BrowserError", "ClipboardError", "DownloadError",
                  "AIServiceError", "NavigationError", "ResponseError",
                  "ImageGenerationError", "BotGatewayError", "ConfigurationError"}
AIServiceClasses == {"AIServiceError", "NavigationError", "ResponseError",
                     "ImageGenerationError"}

Exc(cls, message, details) == [cls |-> cls, message |-> message, details |-> details]

(* DomainException.__str__; a foreign exception prints its message *)
StrOf(e) ==
    IF e.details # ""
    THEN [message |-> e.message, details |-> e.details]
    ELSE [message |-> e.message, details |-> ""]
NoText == [message |-> "", details |-> ""]

(* What the phases raise *)
BrowserStartError == Exc("BrowserError", "Chrome baslatilamadi", "driver")
AnalyzeErrors == {Exc("NavigationError", "Gemini'ye gidilemedi", "driver"),
                  Exc("ResponseError", "Yanit bulunamadi", ""),
                  Exc("OSError", "mkdir", "")}
GenerateErrors == {Exc("ImageGenerationError", "Gorsel olusturulamadi veya timeout", "driver"),
                   Exc("DownloadError", "Tum indirme yontemleri basarisiz oldu", ""),
                   Exc("OSError", "mkdir", "")}

(* ImageProcessResult and the ways execute() can end *)
NoOutcome == [kind |-> "none", success |-> FALSE, paths |-> <<>>,
              error_message |-> NoText, exc |-> "", extracted_prompt |-> "none"]
Success(paths, prompt) ==
    [kind |-> "result", success |-> TRUE, paths |-> paths,
     error_message |-> NoText, exc |-> "", extracted_prompt |-> prompt]
Failure(text) == [kind |-> "result", success |-> FALSE, paths |-> <<>>,
                  error_message |-> text, exc |-> "", extracted_prompt |-> "none"]
Propagates(e) == [kind |-> "exception", success |-> FALSE, paths |-> <<>>,
                  error_message |-> NoText, exc |-> e.cls, extracted_prompt |-> "none"]

(* Mutant: the orchestrator catches AIServiceError instead of DomainException *)
CaughtAIServiceOnly(cls) == cls \in AIServiceClasses

(* "except DomainException as e" of the orchestrators *)
CaughtByOrchestrator(cls) == cls \in DomainClasses

(* The try block of an orchestrator left by exception e *)
Handled(e) ==
    IF CaughtByOrchestrator(e.cls) THEN Failure(StrOf(e)) ELSE Propagates(e)

(* AnalyzeImageUseCase.execute: "except Exception" wraps whatever was raised *)
AnalysisFailed(e) ==
    Exc("AIServiceError", "Gorsel analizi basarisiz", e.message)

(* The outcome of a phase that raised e in the setup or analysis *)
OnAnalysisError(kind, e) ==
    IF kind = "use_case" THEN Handled(AnalysisFailed(e)) ELSE Handled(e)

NoneGenerated == Exc("ImageGenerationError", "Hicbir gorsel olusturulamadi", "Hedef")

RunningBrowser == [driver |-> 1, created |-> 1, live |-> {1}]

(* The calls made so far: browser_service.start, ai_service.analyze_image, *)
(* ai_service.generate_image; and is_running() when the request arrived    *)
Calls(start, analyze, generate, was_running) ==
    [start |-> start, analyze |-> analyze, generate |-> generate,
     was_running |-> was_running]

(* Mutant: the empty prompt is not looked at *)
PromptMissingNever(kind, prompt) == FALSE

(* DirectGenerateStrategy: "if not context.system_prompt" *)
PromptMissing(kind, prompt) == kind = "direct" /\ ~prompt

(* Mutant: start() is called whether or not the browser runs *)
NeedsStartAlways(b) == TRUE

(* "if not self.browser_service.is_running()" *)
NeedsStart(b) == ~IsRunning(b)

(* The prompt a successful result carries: the analysis' answer, or the    *)
(* caller's prompt under DirectGenerateStrategy                            *)
PromptUsed(kind) == IF kind = "direct" THEN "system_prompt" ELSE "extracted_prompt"

WfIdle ==
    /\ wf_kind = "use_case"
    /\ wf_target = 1
    /\ wf_prompt = TRUE
    /\ wf_pc = "idle"
    /\ wf_i = 0
    /\ wf_images = <<>>
    /\ wf_errors = <<>>
    /\ wf_outcome = NoOutcome
    /\ wf_result = NoOutcome
    /\ wf_stops = 0
    /\ wf_calls = Calls(0, 0, 0, FALSE)

(* A request arrives with the browser stopped, or left running by the      *)
(* session check the handler makes first.                                 *)
WfInit ==
    /\ wf_kind \in WorkflowKinds
    /\ wf_target \in 1..MaxCount
    /\ wf_prompt \in (IF wf_kind = "direct" THEN BOOLEAN ELSE {TRUE})
    /\ wf_pc = "idle"
    /\ wf_i = 0
    /\ wf_images = <<>>
    /\ wf_errors = <<>>
    /\ wf_outcome = NoOutcome
    /\ wf_result = NoOutcome
    /\ wf_stops = 0
    /\ browser \in {[o \in BrowserObjs |-> IF o = "service" THEN b ELSE NoBrowser] :
                       b \in {NoBrowser, RunningBrowser}}
    /\ br_last = NoCall
    /\ wf_calls = Calls(0, 0, 0, IsRunning(browser["service"]))

Noted(phase, img, e) == Append(wf_errors, [phase |-> phase, img |-> img, cls |-> e.cls])

(* execute() up to its try block; DirectGenerateStrategy returns at once   *)
(* when the prompt is empty.                                               *)
WfEnter ==
    /\ wf_pc = "idle"
    /\ IF PromptMissing(wf_kind, wf_prompt)
       THEN /\ wf_pc' = "done"
            /\ wf_result' = Failure([message |-> "DirectGenerateStrategy icin prompt gerekli",
                                     details |-> ""])
       ELSE /\ wf_pc' = "start"
            /\ wf_result' = wf_result
    /\ UNCHANGED <<wf_kind, wf_target, wf_prompt, wf_i, wf_images, wf_errors,
                   wf_outcome, wf_stops, wf_calls>>
    /\ UNCHANGED <<dlVars, brVars, navVars, gmVars, appVars, extVars>>

(* "if not self.browser_service.is_running(): self.browser_service.start()" *)
WfStartBrowser ==
    /\ wf_pc = "start"
    /\ \E out \in StartOutcomes :
         LET r == IF NeedsStart(browser["service"])
                  THEN StartBrowser(browser["service"], out)
                  ELSE [b |-> browser["service"], raised |-> FALSE]
         IN  /\ browser' = [browser EXCEPT !["service"] = r.b]
             /\ wf_calls' = IF NeedsStart(browser["service"])
                            THEN [wf_calls EXCEPT !.start = @ + 1]
                            ELSE wf_calls
             /\ IF r.raised
                THEN /\ wf_pc' = "cleanup"
                     /\ wf_outcome' = OnAnalysisError(wf_kind, BrowserStartError)
                     /\ wf_errors' = Noted("start", 0, BrowserStartError)
                ELSE /\ wf_pc' = IF wf_kind = "direct" THEN "generate" ELSE "analyze"
                     /\ UNCHANGED <<wf_outcome, wf_errors>>
    /\ UNCHANGED <<wf_kind, wf_target, wf_prompt, wf_i, wf_images, wf_result,
                   wf_stops, br_last>>
    /\ UNCHANGED <<dlVars, navVars, gmVars, appVars, extVars>>

(* ai_service.analyze_image(...) *)
WfAnalyze ==
    /\ wf_pc = "analyze"
    /\ wf_calls' = [wf_calls EXCEPT !.analyze = @ + 1]
    /\ \/ /\ wf_pc' = "generate"
          /\ UNCHANGED <<wf_outcome, wf_errors>>
       \/ \E e \in AnalyzeErrors :
            /\ wf_pc' = "cleanup"
            /\ wf_outcome' = OnAnalysisError(wf_kind, e)
            /\ wf_errors' = Noted("analyze", 0, e)
    /\ UNCHANGED <<wf_kind, wf_target, wf_prompt, wf_i, wf_images, wf_result, wf_stops>>
    /\ UNCHANGED <<dlVars, brVars, navVars, gmVars, appVars, extVars>>

(* One turn of the image loop.  GenerateImageUseCase catches whatever the  *)
(* turn raises and goes on; the strategies let it leave the loop.          *)
WfGenerate ==
    /\ wf_pc = "generate"
    /\ wf_i < wf_target
    /\ wf_i' = wf_i + 1
    /\ wf_calls' = [wf_calls EXCEPT !.generate = @ + 1]
    /\ \/ /\ wf_images' = Append(wf_images, wf_i + 1)
          /\ UNCHANGED <<wf_pc, wf_outcome, wf_errors>>
       \/ \E e \in GenerateErrors :
            /\ wf_errors' = Noted("generate", wf_i + 1, e)
            /\ wf_images' = wf_images
            /\ IF wf_kind = "use_case"
               THEN UNCHANGED <<wf_pc, wf_outcome>>
               ELSE /\ wf_pc' = "cleanup"
                    /\ wf_outcome' = Handled(e)
    /\ UNCHANGED <<wf_kind, wf_target, wf_prompt, wf_result, wf_stops>>
    /\ UNCHANGED <<dlVars, brVars, navVars, gmVars, appVars, extVars>>

(* After the loop: the result is built; GenerateImageUseCase raises when   *)
(* no image was produced.                                                  *)
WfLoopEnd ==
    /\ wf_pc = "generate"
    /\ wf_i = wf_target
    /\ wf_pc' = "cleanup"
    /\ wf_outcome' = IF wf_kind = "use_case" /\ wf_images = <<>>
                     THEN Handled(NoneGenerated)
                     ELSE Success(wf_images, PromptUsed(wf_kind))
    /\ UNCHANGED <<wf_kind, wf_target, wf_prompt, wf_i, wf_images, wf_errors,
                   wf_result, wf_stops, wf_calls>>
    /\ UNCHANGED <<dlVars, brVars, navVars, gmVars, appVars, extVars>>

(* finally: try: self.browser_service.stop() except Exception: log *)
WfCleanup ==
    /\ wf_pc = "cleanup"
    /\ \E quitOk \in BOOLEAN :
         browser' = [browser EXCEPT
                       !["service"] = StopBrowser(browser["service"], quitOk).b]
    /\ wf_stops' = wf_stops + 1
    /\ wf_result' = wf_outcome
    /\ wf_pc' = "done"
    /\ UNCHANGED <<wf_kind, wf_target, wf_prompt, wf_i, wf_images, wf_errors,
                   wf_outcome, br_last, wf_calls>>
    /\ UNCHANGED <<dlVars, navVars, gmVars, appVars, extVars>>

WfNext ==
    \/ WfEnter
    \/ WfStartBrowser
    \/ WfAnalyze
    \/ WfGenerate
    \/ WfLoopEnd
    \/ WfCleanup

----------------------------------------------------------------------------
(* GeminiNavigator.is_logged_in *)

PromptSelectors == <<"div[role=textbox]", ".ql-editor", "rich-textarea",
                     "[contenteditable=true]">>
LoginIndicators == <<"button[sign-in]", "[aria-label=oturum ac]",
                     "[aria-label=Sign in with Google]", "a[href*=accounts.google.com]">>

(* What find_elements does for one selector: no element, some, or throws *)
Lookups == {"absent", "present", "throws"}
(* driver.current_url: on the app, on accounts.google.com, on the sign-in  *)
(* page the app redirects to (accounts.google.com/...?continue=https://    *)
(* gemini.google.com/app), elsewhere, or throws                            *)
Urls == {"gemini", "accounts", "accounts_continue", "other", "throws"}

NoNav == [called |-> FALSE, value |-> FALSE, reason |-> "", raised |-> FALSE]
Answer(v, why) == [called |-> TRUE, value |-> v, reason |-> why, raised |-> FALSE]
Thrown == [called |-> TRUE, value |-> FALSE, reason |-> "", raised |-> TRUE]

(* "for selector in ...: try: if find_elements(...): return ... except:    *)
(* continue": whether some selector of the chain yields elements           *)
RECURSIVE AnyMatch(_, _)
AnyMatch(look, i) ==
    IF i > Len(look) THEN FALSE
    ELSE IF look[i] = "present" THEN TRUE
    ELSE AnyMatch(look, i + 1)

(* 'accounts.google.com' in current_url *)
OnAuthDomain(url) == url \in {"accounts", "accounts_continue"}

(* The body of the outer try block *)
LoggedInBody(pg) ==
    IF AnyMatch(pg.prompt, 1) THEN Answer(TRUE, "prompt")
    ELSE IF AnyMatch(pg.login, 1) THEN Answer(FALSE, "login_indicator")
    ELSE IF pg.url = "throws" THEN Thrown
    ELSE IF OnAuthDomain(pg.url) THEN Answer(FALSE, "auth_url")
    ELSE Answer(FALSE, "default")

(* Mutant: the sign-in indicators are consulted before the input surface *)
IsLoggedInLoginFirst(pg) ==
    IF AnyMatch(pg.login, 1) THEN Answer(FALSE, "login_indicator")
    ELSE IF AnyMatch(pg.prompt, 1) THEN Answer(TRUE, "prompt")
    ELSE IF pg.url = "throws" THEN Answer(FALSE, "error")
    ELSE IF OnAuthDomain(pg.url) THEN Answer(FALSE, "auth_url")
    ELSE Answer(FALSE, "default")

(* is_logged_in: the outer "except Exception: return False" *)
IsLoggedIn(pg) ==
    IF LoggedInBody(pg).raised THEN Answer(FALSE, "error") ELSE LoggedInBody(pg)

Pages == [prompt : [1..Len(PromptSelectors) -> Lookups],
          login : [1..Len(LoginIndicators) -> Lookups],
          url : Urls]

----------------------------------------------------------------------------
(* GeminiNavigator.check_session *)

(* 'gemini.google.com' in current_url *)
NamesApp(url) == url \in {"gemini", "accounts_continue"}

ActiveMessage == "Oturum aktif"
InactiveMessage == "Oturum kapali - /login komutu ile giris yapin"
NoDriverMessage == "Tarayici baslatilmamis"
ErrorMessage == "Oturum kontrol hatasi"
ServiceErrorMessage == "Oturum kontrolu hatasi"

NoCheck == [called |-> FALSE, valid |-> FALSE, message |-> "", fault |-> "none",
            navigated |-> FALSE, before |-> "gemini", raised |-> FALSE]
Checked(v, msg, fault, navigated, pg, logged) ==
    [valid |-> v, message |-> msg, fault |-> fault, navigated |-> navigated,
     page |-> pg, logged |-> logged]

(* "if self.is_logged_in(): return True, ... else: return False, ..." *)
SessionOf(pg, navigated) ==
    IF IsLoggedIn(pg).value
    THEN Checked(TRUE, ActiveMessage, "none", navigated, pg, IsLoggedIn(pg))
    ELSE Checked(FALSE, InactiveMessage, "none", navigated, pg, IsLoggedIn(pg))

(* Where driver.get(gemini_url) can land: the app signed in, the sign-in    *)
(* page it redirects to, the app's signed-out landing page, a blank page    *)
PageOf(prompt, login, url) ==
    [prompt |-> [i \in 1..Len(PromptSelectors) |-> IF i = prompt THEN "present" ELSE "absent"],
     login |-> [i \in 1..Len(LoginIndicators) |-> IF i = login THEN "present" ELSE "absent"],
     url |-> url]
Landings == {PageOf(1, 0, "gemini"), PageOf(0, 4, "accounts_continue"),
             PageOf(0, 1, "gemini"), PageOf(0, 0, "gemini")}

(* check_session: when navigate_to_gemini is called, navOk tells whether    *)
(* driver.get returns and landing is the page it then shows                 *)
CheckSession(pg, hasDriver, navOk, landing) ==
    IF ~hasDriver THEN Checked(FALSE, NoDriverMessage, "driver", FALSE, pg, NoNav)
    ELSE IF pg.url = "throws" THEN Checked(FALSE, ErrorMessage, "url", FALSE, pg, NoNav)
    ELSE IF ~NamesApp(pg.url)
         THEN IF ~navOk
              THEN Checked(FALSE, ErrorMessage, "navigate", TRUE, pg, NoNav)
              ELSE SessionOf(landing, TRUE)
    ELSE SessionOf(pg, FALSE)

----------------------------------------------------------------------------
(* GeminiNavigator.start_new_chat *)

NewChatVariants == <<"button[aria-label=Yeni sohbet]", "button[aria-label=New chat]",
                     "button[class*=side-nav-action-]", "a[href=/app]">>

(* find_element then a JS click on one selector: no element (find_element   *)
(* raises), an element whose click raises, an element that is clicked       *)
ClickLookups == {"absent", "click_throws", "clicked"}

NoChat == [called |-> FALSE, chain |-> <<>>, calls |-> <<>>, raised |-> FALSE]

(* The selector loop: the driver calls it makes, ending at the first        *)
(* selector that is found and clicked                                       *)
RECURSIVE ClickFirst(_, _)
ClickFirst(chain, i) ==
    IF i > Len(chain) THEN <<>>
    ELSE IF chain[i] = "absent" THEN <<[op |-> "find", sel |-> i, ok |-> FALSE]>> \o ClickFirst(chain, i + 1)
    ELSE IF chain[i] = "click_throws"
         THEN <<[op |-> "find", sel |-> i, ok |-> TRUE], [op |-> "click", sel |-> i, ok |-> FALSE]>>
              \o ClickFirst(chain, i + 1)
    ELSE <<[op |-> "find", sel |-> i, ok |-> TRUE], [op |-> "click", sel |-> i, ok |-> TRUE]>>

Clicked(calls) == \E k \in 1..Len(calls) : calls[k].op = "click" /\ calls[k].ok
Call(op, ok) == [op |-> op, sel |-> 0, ok |-> ok]

(* start_new_chat: the loop, the fallback (get, refresh) and the handler    *)
(* of the outer try (get), whose own failure leaves the method              *)
StartNewChat(chain, get1, refresh, get2) ==
    LET loop == ClickFirst(chain, 1)
        handler == <<Call("get", get2)>>
    IN  IF Clicked(loop)
        THEN [called |-> TRUE, chain |-> chain, calls |-> loop, raised |-> FALSE]
        ELSE IF ~get1
        THEN [called |-> TRUE, chain |-> chain, raised |-> ~get2,
              calls |-> loop \o <<Call("get", FALSE)>> \o handler]
        ELSE IF ~refresh
        THEN [called |-> TRUE, chain |-> chain, raised |-> ~get2,
              calls |-> loop \o <<Call("get", TRUE), Call("refresh", FALSE)>> \o handler]
        ELSE [called |-> TRUE, chain |-> chain, raised |-> FALSE,
              calls |-> loop \o <<Call("get", TRUE), Call("refresh", TRUE)>>]

----------------------------------------------------------------------------
(* The navigator's operations *)
NavIdle ==
    /\ page = [prompt |-> [i \in 1..Len(PromptSelectors) |-> "absent"],
               login |-> [i \in 1..Len(LoginIndicators) |-> "absent"],
               url |-> "gemini"]
    /\ nav_result = NoNav
    /\ nav_chk = NoCheck
    /\ nav_chat = NoChat

NavInit ==
    /\ page \in Pages
    /\ nav_result = NoNav
    /\ nav_chk = NoCheck
    /\ nav_chat = NoChat

NavIsLoggedIn ==
    /\ nav_result' = IsLoggedIn(page)
    /\ UNCHANGED <<page, nav_chk, nav_chat>>
    /\ UNCHANGED <<dlVars, brVars, wfVars, gmVars, appVars, extVars>>

NavNext == NavIsLoggedIn

(* The ways one check_session call can go on page pg: the browser does not *)
(* start, the navigator has no driver, driver.get raises, or the           *)
(* navigation, when made, lands on one of the pages                        *)
SessionOutcomes(pg) ==
    {Checked(FALSE, ServiceErrorMessage, "browser", FALSE, pg, NoNav)}
    \cup {CheckSession(pg, hasDriver, navOk, landing) :
             hasDriver \in BOOLEAN, navOk \in BOOLEAN, landing \in Landings}

(* GeminiAIService.check_session: _ensure_browser, then the navigator's    *)
(* check_session; whatever is raised becomes (False, message).  One call   *)
(* is followed.                                                            *)
NavCheckSession ==
    /\ ~nav_chk.called
    /\ \E r \in SessionOutcomes(page) :
             /\ page' = r.page
             /\ nav_result' = IF r.logged.called THEN r.logged ELSE nav_result
             /\ nav_chk' = [called |-> TRUE, valid |-> r.valid, message |-> r.message,
                            fault |-> r.fault, navigated |-> r.navigated,
                            before |-> page.url, raised |-> FALSE]
    /\ UNCHANGED nav_chat
    /\ UNCHANGED <<dlVars, brVars, wfVars, gmVars, appVars, extVars>>

SessionNext == NavCheckSession

(* start_new_chat called with the driver behaving in any way *)
NavStartNewChat ==
    /\ \E chain \in [1..Len(NewChatVariants) -> ClickLookups],
          get1 \in BOOLEAN, refresh \in BOOLEAN, get2 \in BOOLEAN :
         nav_chat' = StartNewChat(chain, get1, refresh, get2)
    /\ UNCHANGED <<page, nav_result, nav_chk>>
    /\ UNCHANGED <<dlVars, brVars, wfVars, gmVars, appVars, extVars>>

NewChatNext == NavStartNewChat

----------------------------------------------------------------------------
(* GeminiImageUploader: upload_image and _verify_upload *)

ImageVerify == 10     \* GeminiTimeouts.IMAGE_VERIFY
ShortWait == 1        \* GeminiTimeouts.SHORT_WAIT
MediumWait == 2       \* GeminiTimeouts.MEDIUM_WAIT
ClipboardWait == 2    \* GeminiTimeouts.CLIPBOARD_WAIT
ImageUpload == 5      \* GeminiTimeouts.IMAGE_UPLOAD

(* execute_script(CHECK_UPLOADED_IMAGE): true, false, or raises *)
PollOutcomes == {"marker", "none", "throws"}
(* The steps before the verification: copy to the clipboard, wait for the  *)
(* prompt area, click it, paste                                            *)
PasteOutcomes == {"ok", "ClipboardError", "TimeoutException", "click_throws",
                  "paste_throws"}

NoUpload == [kind |-> "none", verified |-> FALSE, cls |-> ""]

(* Mutant: the loop goes on after a poll that saw the marker *)
PollEndsAtLimit(out, n) == n = ImageVerify

(* "if uploaded: ... return True" and the end of range(IMAGE_VERIFY) *)
PollEnds(out, n) == out = "marker" \/ n = ImageVerify

(* Mutant: an unverified upload fails the phase *)
UploadEndStrict(verified) ==
    IF verified THEN [kind |-> "returned", verified |-> TRUE, cls |-> ""]
    ELSE [kind |-> "raised", verified |-> FALSE, cls |-> "AIServiceError"]

(* upload_image line 65: the value of _verify_upload() is not used *)
UploadEnd(verified) == [kind |-> "returned", verified |-> verified, cls |-> ""]

UpIdle ==
    /\ up_pc = "idle"
    /\ up_now = 0
    /\ up_polls = <<>>
    /\ up_result = NoUpload

UpInit ==
    /\ up_pc = "start"
    /\ up_now = 0
    /\ up_polls = <<>>
    /\ up_result = NoUpload

(* upload_image lines 43-62; what is raised is wrapped at lines 67-70 *)
UpPaste ==
    /\ up_pc = "start"
    /\ \E out \in PasteOutcomes :
         IF out = "ok"
         THEN /\ up_pc' = "verify"
              /\ up_now' = up_now + ClipboardWait + ShortWait + ImageUpload
              /\ UNCHANGED up_result
         ELSE /\ up_pc' = "raised"
              /\ up_result' = [kind |-> "raised", verified |-> FALSE,
                               cls |-> "AIServiceError"]
              /\ UNCHANGED up_now
    /\ UNCHANGED up_polls
    /\ UNCHANGED <<dlVars, brVars, wfVars, navVars, rsVars, tlVars, phVars, appVars, extVars>>

(* _verify_upload: one turn of the loop, with the return that ends it *)
UpPoll ==
    /\ up_pc = "verify"
    /\ Len(up_polls) < ImageVerify
    /\ \E out \in PollOutcomes :
         LET n == Len(up_polls) + 1 IN
         /\ up_polls' = Append(up_polls, [at |-> up_now, out |-> out])
         /\ up_now' = up_now + (IF out = "marker" THEN MediumWait ELSE ShortWait)
         /\ IF PollEnds(out, n)
            THEN /\ up_result' = UploadEnd(out = "marker")
                 /\ up_pc' = IF UploadEnd(out = "marker").kind = "returned"
                             THEN "returned" ELSE "raised"
            ELSE UNCHANGED <<up_pc, up_result>>
    /\ UNCHANGED <<dlVars, brVars, wfVars, navVars, rsVars, tlVars, phVars, appVars, extVars>>

(* GeminiAIService.analyze_image line 112: the next phase *)
UpSendPrompt ==
    /\ up_pc = "returned"
    /\ up_pc' = "send_prompt"
    /\ UNCHANGED <<up_now, up_polls, up_result>>
    /\ UNCHANGED <<dlVars, brVars, wfVars, navVars, rsVars, tlVars, phVars, appVars, extVars>>

UpNext == UpPaste \/ UpPoll \/ UpSendPrompt

----------------------------------------------------------------------------
(* GeminiPromptManager: wait_for_response and get_response_text *)

LongWait == 5          \* GeminiTimeouts.LONG_WAIT
ResponseCheck == 3     \* GeminiTimeouts.RESPONSE_CHECK
MinResponseLen == 10   \* len(text_content.strip()) > 10

ModelResponseVariants == <<"model-response", ".model-response-text", ".response-content",
                           ".message-content", "[data-message-author-role=model]",
                           ".markdown-content">>

(* The lengths of answer text explored, around the acceptance floor *)
BodyLens == {10, 11, 50}
(* What one candidate gives: no element, a lookup or script that raises, or *)
(* an element with answer text of some length                               *)
Candidate(found, body) == [found |-> found, body |-> body]
CandidateOutcomes == {Candidate("absent", 0), Candidate("throws", 0)}
                     \cup {Candidate("element", n) : n \in BodyLens}
(* How the elements are dressed: reasoning text inside, whitespace around *)
ThoughtLens == {0, 40}
Pads == {0, 1}

Text(len, pad) == [len |-> len, pad |-> pad]
(* str.strip() *)
Strip(t) == Text(t.len, 0)
(* len() of a string with its surrounding whitespace *)
StrLen(t) == t.len + 2 * t.pad

(* innerText of an element: its answer text and reasoning text, with the   *)
(* whitespace around them                                                  *)
InnerText(body, thoughts, pad) == Text(body + thoughts, pad)
(* GET_RESPONSE_TEXT: the clone with the thoughts elements removed,        *)
(* innerText, trim()                                                       *)
GetResponseTextScript(body, thoughts, pad) == Strip(InnerText(body, 0, pad))

(* Mutant: a text of exactly the floor length is accepted *)
AcceptedFromFloor(t) == StrLen(Strip(t)) >= MinResponseLen

(* "if text_content and len(text_content.strip()) > 10" *)
Accepted(t) == StrLen(Strip(t)) > MinResponseLen

NoResponse == [kind |-> "none", text |-> Text(0, 0), via |-> 0, tried |-> <<>>, cls |-> ""]

(* The candidates in the order the method consults them: the tag lookup,   *)
(* then the loop over the variants, which skips the tag name               *)
CandidateOrder == <<1>> \o SelectSeq([i \in 1..Len(ModelResponseVariants) |-> i],
                                     LAMBDA i : ModelResponseVariants[i] # "model-response")

RECURSIVE ResponseFrom(_, _, _)
ResponseFrom(in, k, tried) ==
    IF k > Len(CandidateOrder)
    THEN [kind |-> "raised", text |-> Text(0, 0), via |-> 0, tried |-> tried,
          cls |-> "ResponseError"]
    ELSE LET i == CandidateOrder[k]
             c == in.cands[i]
         IN  IF c.found # "element"
             THEN ResponseFrom(in, k + 1, Append(tried, i))
             ELSE LET t == GetResponseTextScript(c.body, in.thoughts, in.pad) IN
                  IF Accepted(t)
                  THEN [kind |-> "returned", text |-> Strip(t), via |-> i,
                        tried |-> Append(tried, i), cls |-> ""]
                  ELSE ResponseFrom(in, k + 1, Append(tried, i))

GetResponseText(in) == ResponseFrom(in, 1, <<>>)

(* The in-progress indicator (STOP_BUTTON) during until_not: it never      *)
(* appeared, it went away in time, it stayed past the timeout, or the      *)
(* driver raised                                                           *)
IndicatorOutcomes == {"never_appeared", "disappeared", "timeout", "throws"}

NoWait == [called |-> FALSE, indicator |-> "", raised |-> FALSE, sleeps |-> <<>>]

(* Mutant: an indicator that never appeared is an error *)
WaitForResponseStrict(ind) ==
    [called |-> TRUE, indicator |-> ind, raised |-> ind = "never_appeared",
     sleeps |-> IF ind = "never_appeared" THEN <<LongWait>> ELSE <<LongWait, ResponseCheck>>]

(* wait_for_response: settle, until_not(presence of STOP_BUTTON) with its  *)
(* exception passed over, settle                                           *)
WaitForResponse(ind) ==
    [called |-> TRUE, indicator |-> ind, raised |-> FALSE,
     sleeps |-> <<LongWait, ResponseCheck>>]

ResponseInputs == [cands : [1..Len(ModelResponseVariants) -> CandidateOutcomes],
                   thoughts : ThoughtLens, pad : Pads]

RsIdle ==
    /\ rs_pc = "idle"
    /\ rs_in = [cands |-> [i \in 1..Len(ModelResponseVariants) |-> Candidate("absent", 0)],
                thoughts |-> 0, pad |-> 0]
    /\ rs_wait = NoWait
    /\ rs_out = NoResponse

RsInit ==
    /\ rs_pc = "wait"
    /\ rs_in \in ResponseInputs
    /\ rs_wait = NoWait
    /\ rs_out = NoResponse

(* GeminiAIService.analyze_image line 113 *)
RsWaitForResponse ==
    /\ rs_pc = "wait"
    /\ \E ind \in IndicatorOutcomes :
         /\ rs_wait' = WaitForResponse(ind)
         /\ rs_pc' = IF WaitForResponse(ind).raised THEN "raised" ELSE "extract"
    /\ UNCHANGED <<rs_in, rs_out>>
    /\ UNCHANGED <<dlVars, brVars, wfVars, navVars, upVars, tlVars, phVars, appVars, extVars>>

(* GeminiAIService.analyze_image line 115 *)
RsGetResponseText ==
    /\ rs_pc = "extract"
    /\ rs_out' = GetResponseText(rs_in)
    /\ rs_pc' = "done"
    /\ UNCHANGED <<rs_in, rs_wait>>
    /\ UNCHANGED <<dlVars, brVars, wfVars, navVars, upVars, tlVars, phVars, appVars, extVars>>

RsNext == RsWaitForResponse \/ RsGetResponseText

----------------------------------------------------------------------------
(* GeminiImageGenerator.select_image_generation_tool *)

MaxItems == 4          \* largest tools menu explored

ToolsButtonVariants == <<"button.toolbox-drawer-button", "button[class*=toolbox-drawer]",
                         "button.toolbox-drawer-button-with-label">>
OptionSelectors == <<"button.toolbox-drawer-item-list-button",
                     "button[class*=toolbox-drawer-item]", ".mat-mdc-list-item button">>
FallbackIndex == 3     \* options[2]

(* option.text of the menu items explored *)
ItemTexts == {" Goruntu olusturun ", "CREATE IMAGE", "Canvas"}
(* str.strip() and str.lower() on these texts *)
StripText(t) == IF t = " Goruntu olusturun " THEN "Goruntu olusturun" ELSE t
LowerText(t) ==
    CASE t = "Goruntu olusturun" -> "goruntu olusturun"
      [] t = "CREATE IMAGE" -> "create image"
      [] t = "Canvas" -> "canvas"
      [] OTHER -> t
(* "'görüntü oluştur' in option_text or 'create image' in option_text" *)
HasPhrase(t) == t \in {"goruntu olusturun", "goruntu olustur", "create image"}
IsImageGeneration(text) == HasPhrase(LowerText(StripText(text)))

(* wait.until(element_to_be_clickable) for one trigger selector *)
TriggerOutcomes == {"clickable", "timeout"}
(* find_elements for one option selector: no element, raises, or the items *)
OptionOutcomes == {"empty", "throws", "items"}

RECURSIVE FirstClickable(_, _)
FirstClickable(triggers, i) ==
    IF i > Len(triggers) THEN 0
    ELSE IF triggers[i] = "clickable" THEN i
    ELSE FirstClickable(triggers, i + 1)

(* The option loop: the selector that gave items, or the one that raised *)
RECURSIVE FirstOptions(_, _)
FirstOptions(chain, i) ==
    IF i > Len(chain) THEN [sel |-> 0, out |-> "empty"]
    ELSE IF chain[i] = "empty" THEN FirstOptions(chain, i + 1)
    ELSE [sel |-> i, out |-> chain[i]]

RECURSIVE MatchIndex(_, _)
MatchIndex(items, k) ==
    IF k > Len(items) THEN 0
    ELSE IF IsImageGeneration(items[k]) THEN k
    ELSE MatchIndex(items, k + 1)

(* "if len(options) > 2: ... options[2]"; 0 when there is no fallback *)
Fallback(items) == IF Len(items) > FallbackIndex - 1 THEN FallbackIndex ELSE 0

(* The item the method clicks: the first textual match, else the fallback *)
Target(items) ==
    IF MatchIndex(items, 1) # 0 THEN MatchIndex(items, 1) ELSE Fallback(items)

NoTool == [called |-> FALSE, result |-> FALSE, raised |-> FALSE, trigger |-> 0,
           option |-> 0, clicked |-> <<>>]
ToolResult(ok, trigger, option, clicked) ==
    [called |-> TRUE, result |-> ok, raised |-> FALSE, trigger |-> trigger,
     option |-> option, clicked |-> clicked]

(* Mutant: a failure to open the menu leaves the method as an exception *)
ToolFailedRaises(trigger, option) ==
    [called |-> TRUE, result |-> FALSE, raised |-> TRUE, trigger |-> trigger,
     option |-> option, clicked |-> <<>>]

(* "return False", also from "except Exception" *)
ToolFailed(trigger, option) == ToolResult(FALSE, trigger, option, <<>>)

SelectImageGenerationTool(in) ==
    LET trigger == FirstClickable(in.triggers, 1)
        opts == FirstOptions(in.options, 1)
        target == Target(in.items)
    IN  IF trigger = 0 THEN ToolFailed(0, 0)
        ELSE IF ~in.openOk THEN ToolFailed(trigger, 0)
        ELSE IF opts.out # "items" THEN ToolFailed(trigger, opts.sel)
        ELSE IF target = 0 THEN ToolResult(FALSE, trigger, opts.sel, <<>>)
        ELSE IF ~in.clickOk THEN ToolFailed(trigger, opts.sel)
        ELSE ToolResult(TRUE, trigger, opts.sel, <<target>>)

Menus == UNION {[1..n -> ItemTexts] : n \in 1..MaxItems}
ToolInputs == [triggers : [1..Len(ToolsButtonVariants) -> TriggerOutcomes],
               openOk : BOOLEAN,
               options : [1..Len(OptionSelectors) -> OptionOutcomes],
               items : Menus,
               clickOk : BOOLEAN]

TlIdle ==
    /\ tl_in = [triggers |-> [i \in 1..Len(ToolsButtonVariants) |-> "timeout"],
                openOk |-> TRUE,
                options |-> [i \in 1..Len(OptionSelectors) |-> "empty"],
                items |-> <<"Canvas">>, clickOk |-> TRUE]
    /\ tl_out = NoTool

TlInit ==
    /\ tl_in \in ToolInputs
    /\ tl_out = NoTool

(* GeminiAIService.generate_image line 127 *)
TlSelect ==
    /\ ~tl_out.called
    /\ tl_out' = SelectImageGenerationTool(tl_in)
    /\ UNCHANGED tl_in
    /\ UNCHANGED <<dlVars, brVars, wfVars, navVars, upVars, rsVars, phVars, appVars, extVars>>

TlNext == TlSelect

----------------------------------------------------------------------------
(* GeminiAIService.analyze_image / generate_image under an orchestrator:   *)
(* the phases of one request                                               *)

(* analyze_image, lines 110-115 *)
AnalysisPhases == <<"navigate", "upload", "send_analysis_prompt", "wait_for_response",
                    "extract_response">>
(* generate_image, lines 127-131 *)
GeneratePhases == <<"select_tool", "send_generation_prompt", "wait_for_generation",
                    "download">>
(* The phases that can raise: wait_for_response and the tool selection     *)
(* pass over every exception                                               *)
RaisingPhases == {"navigate", "upload", "send_analysis_prompt", "extract_response",
                  "new_chat", "send_generation_prompt", "wait_for_generation", "download"}

PhaseKinds == {"use_case", "analyze_generate"}

(* What runs for image img (0: the analysis); GenerateImageUseCase starts  *)
(* a new session before each generate_image                                *)
PhaseList(kind, img) ==
    IF img = 0 THEN AnalysisPhases
    ELSE IF kind = "use_case" THEN <<"new_chat">> \o GeneratePhases
    ELSE GeneratePhases

At(img, idx, at) == [img |-> img, idx |-> idx, at |-> at]
Over(how) == [img |-> 0, idx |-> 0, at |-> how]

(* Where the request goes when a phase returns *)
AfterReturn(kind, img, idx, target) ==
    IF idx < Len(PhaseList(kind, img)) THEN At(img, idx + 1, "before")
    ELSE IF img < target THEN At(img + 1, 1, "before")
    ELSE Over("completed")

(* Mutant: the phase after one that raised still runs *)
AfterRaiseGoesOn(kind, img, idx, target) == AfterReturn(kind, img, idx, target)

(* Where the request goes when a phase raises: the analysis and the        *)
(* strategies' image loop end the request; GenerateImageUseCase goes to    *)
(* the next image                                                          *)
AfterRaise(kind, img, idx, target) ==
    IF img = 0 \/ kind # "use_case" THEN Over("failed")
    ELSE IF img < target THEN At(img + 1, 1, "before")
    ELSE Over("completed")

Event(ev, pc, kind) == [ev |-> ev, img |-> pc.img, phase |-> PhaseList(kind, pc.img)[pc.idx]]

PhIdle ==
    /\ ph_kind = "use_case"
    /\ ph_target = 1
    /\ ph_pc = Over("idle")
    /\ ph_trace = <<>>

PhInit ==
    /\ ph_kind \in PhaseKinds
    /\ ph_target \in 1..MaxCount
    /\ ph_pc = At(0, 1, "before")
    /\ ph_trace = <<>>

(* A phase method is called *)
PhStart ==
    /\ ph_pc.at = "before"
    /\ ph_trace' = Append(ph_trace, Event("start", ph_pc, ph_kind))
    /\ ph_pc' = At(ph_pc.img, ph_pc.idx, "in")
    /\ UNCHANGED <<ph_kind, ph_target>>
    /\ UNCHANGED <<dlVars, brVars, wfVars, navVars, upVars, rsVars, tlVars, appVars, extVars>>

(* The phase method returns *)
PhReturn ==
    /\ ph_pc.at = "in"
    /\ ph_trace' = Append(ph_trace, Event("return", ph_pc, ph_kind))
    /\ ph_pc' = AfterReturn(ph_kind, ph_pc.img, ph_pc.idx, ph_target)
    /\ UNCHANGED <<ph_kind, ph_target>>
    /\ UNCHANGED <<dlVars, brVars, wfVars, navVars, upVars, rsVars, tlVars, appVars, extVars>>

(* The phase method raises *)
PhRaise ==
    /\ ph_pc.at = "in"
    /\ PhaseList(ph_kind, ph_pc.img)[ph_pc.idx] \in RaisingPhases
    /\ ph_trace' = Append(ph_trace, Event("raise", ph_pc, ph_kind))
    /\ ph_pc' = AfterRaise(ph_kind, ph_pc.img, ph_pc.idx, ph_target)
    /\ UNCHANGED <<ph_kind, ph_target>>
    /\ UNCHANGED <<dlVars, brVars, wfVars, navVars, upVars, rsVars, tlVars, appVars, extVars>>

PhNext == PhStart \/ PhReturn \/ PhRaise

GmIdle == UpIdle /\ RsIdle /\ TlIdle /\ PhIdle

----------------------------------------------------------------------------
(* The image count: ImageCount (domain/value_objects/image_count.py) and   *)
(* handle_count (presentation/handlers/conversation_handlers.py)           *)

MIN_COUNT == 1         \* _MIN_COUNT
MAX_COUNT == 9         \* _MAX_COUNT
MaxValue == 11         \* the largest number a user types

(* What the user types: optional whitespace around, an optional sign, and  *)
(* digits, a decimal number, a word or nothing                             *)
CountForms == {"digits", "decimal", "word", "empty"}
CountTexts == [pad : BOOLEAN, sign : {"", "+", "-"}, form : CountForms, n : 0..MaxValue]

Value(v) == [ok |-> TRUE, value |-> v, cls |-> "none"]
Raises(cls) == [ok |-> FALSE, value |-> 0, cls |-> cls]

(* int(value.strip()): an optionally signed run of digits is a number,     *)
(* anything else raises ValueError                                         *)
ParseInt(text) ==
    IF text.form = "digits"
    THEN Value(IF text.sign = "-" THEN 0 - text.n ELSE text.n)
    ELSE Raises("ValueError")

(* Mutant: the upper limit is taken one too high *)
ImageCountLoose(value) ==
    IF value < MIN_COUNT \/ value > MAX_COUNT + 1 THEN Raises("ValueError")
    ELSE Value(value)

(* ImageCount.__post_init__ on an int *)
ImageCount(value) ==
    IF value < MIN_COUNT \/ value > MAX_COUNT THEN Raises("ValueError")
    ELSE Value(value)

(* ImageCount.from_string: both failures leave as ValueError *)
FromString(text) ==
    LET parsed == ParseInt(text) IN
    IF ~parsed.ok THEN Raises("ValueError")
    ELSE LET made == ImageCount(parsed.value) IN
         IF made.ok THEN made ELSE Raises("ValueError")

Sessions == {"valid", "invalid", "raises"}
NoCount == [called |-> FALSE, text |-> [pad |-> FALSE, sign |-> "", form |-> "empty", n |-> 0],
            cls |-> "none", reply |-> "none", workflow |-> FALSE, target |-> 0]
CountHandled(text, made, reply, workflow) ==
    [called |-> TRUE, text |-> text, cls |-> made.cls, reply |-> reply,
     workflow |-> workflow, target |-> IF workflow THEN made.value ELSE 0]

CnIdle ==
    /\ cn_state = "END"
    /\ cn_data = "empty"
    /\ cn_last = NoCount

(* A photo has been received and the bot has asked for the count *)
CnInit ==
    /\ cn_state = "WAITING_FOR_COUNT"
    /\ cn_data \in {"image", "image_gone"}
    /\ cn_last = NoCount

(* handle_photo / handle_document: the file is saved, its path goes to     *)
(* user_data and the conversation waits for the count                      *)
HandlePhoto ==
    /\ cn_state = "END"
    /\ cn_state' = "WAITING_FOR_COUNT"
    /\ cn_data' \in {"image", "image_gone"}
    /\ cn_last' = NoCount
    /\ UNCHANGED <<coreVars, ptVars, sbVars, hqVars, gnVars, btVars, extVars>>

(* handle_count on one text message *)
HandleCount ==
    /\ cn_state = "WAITING_FOR_COUNT"
    /\ \E text \in CountTexts, session \in Sessions :
         LET made == FromString(text) IN
         IF ~made.ok
         THEN /\ cn_state' = "WAITING_FOR_COUNT"
              /\ cn_data' = cn_data
              /\ cn_last' = CountHandled(text, made, "invalid_count", FALSE)
         ELSE IF cn_data # "image"
         THEN /\ cn_state' = "END"
              /\ cn_data' = cn_data
              /\ cn_last' = CountHandled(text, made, "no_photo", FALSE)
         ELSE IF session = "invalid"
         THEN /\ cn_state' = "END"
              /\ cn_data' = "empty"
              /\ cn_last' = CountHandled(text, made, "session_closed", FALSE)
         ELSE /\ cn_state' = "END"
              /\ cn_data' = "empty"
              /\ cn_last' = CountHandled(text, made, "workflow_result", TRUE)
    /\ UNCHANGED <<coreVars, ptVars, sbVars, hqVars, gnVars, btVars, extVars>>

CnNext == HandlePhoto \/ HandleCount

----------------------------------------------------------------------------
(* The prompt value object: Prompt (domain/value_objects/prompt.py)        *)

MAX_LENGTH == 10000    \* _MAX_LENGTH
MaxOver == 1           \* how far past the limit the longest text explored goes

(* A text is a run of whitespace, a run of other characters and a run of   *)
(* whitespace, given by the three lengths; a text with no other character  *)
(* is all leading whitespace                                               *)
Str(lead, core, trail) == [lead |-> lead, core |-> core, trail |-> trail]
Length(t) == t.lead + t.core + t.trail
(* "not text or not text.strip()" *)
Blank(t) == t.core = 0
Min(a, b) == IF a <= b THEN a ELSE b
Max(a, b) == IF a >= b THEN a ELSE b

(* Python's text[:n]: the first n characters, or for a negative n all but  *)
(* the last -n                                                             *)
Slice(t, n) ==
    LET k == IF n >= 0 THEN Min(n, Length(t)) ELSE Max(Length(t) + n, 0)
        lead == Min(t.lead, k)
        core == Min(t.core, k - lead)
    IN  Str(lead, core, k - lead - core)

(* a is an initial segment of b *)
IsPrefix(a, b) ==
    /\ a.lead <= b.lead
    /\ a.core > 0 => a.lead = b.lead /\ a.core <= b.core
    /\ a.trail > 0 => a.core = b.core /\ a.trail <= b.trail

Made(t) == [called |-> TRUE, ok |-> TRUE, text |-> t, cls |-> "none"]
Rejected(cls) == [called |-> TRUE, ok |-> FALSE, text |-> Str(0, 0, 0), cls |-> cls]
NotMade == [called |-> FALSE, ok |-> FALSE, text |-> Str(0, 0, 0), cls |-> "none"]

(* Mutant: a text over the limit is kept whole *)
PromptKeepsLong(text) ==
    IF Blank(text) THEN Rejected("ValueError") ELSE Made(text)

(* Prompt(text): __post_init__ *)
Prompt(text) ==
    IF Blank(text) THEN Rejected("ValueError")
    ELSE IF Length(text) > MAX_LENGTH THEN Made(Slice(text, MAX_LENGTH))
    ELSE Made(text)

(* Prompt.truncate(max_length) on a prompt holding text *)
Truncate(text, max_length) ==
    IF Length(text) <= max_length THEN Made(text)
    ELSE Prompt(Slice(text, max_length))

(* The texts and limits explored: lengths around zero and around the cap *)
SmallLens == {0, 1, 2}
CapLens == (MAX_LENGTH - 1)..(MAX_LENGTH + MaxOver)
PromptTexts == {Str(l, c, t) : l \in {0, 1, MAX_LENGTH}, c \in SmallLens \cup CapLens,
                               t \in {0, 1}} \ {Str(l, 0, 1) : l \in {0, 1, MAX_LENGTH}}
Limits == {0 - 1, 0, 1, 2, 3} \cup CapLens

PtIdle ==
    /\ pt_in = [text |-> Str(0, 1, 0), limit |-> 1]
    /\ pt_out = [made |-> NotMade, cut |-> NotMade]

PtInit ==
    /\ pt_in \in [text : PromptTexts, limit : Limits]
    /\ pt_out = [made |-> NotMade, cut |-> NotMade]

(* Prompt(text=...) *)
PtConstruct ==
    /\ ~pt_out.made.called
    /\ pt_out' = [pt_out EXCEPT !.made = Prompt(pt_in.text)]
    /\ UNCHANGED pt_in
    /\ UNCHANGED <<coreVars, cnVars, sbVars, hqVars, gnVars, btVars, extVars>>

(* prompt.truncate(limit) on the prompt that was made *)
PtTruncate ==
    /\ pt_out.made.ok
    /\ ~pt_out.cut.called
    /\ pt_out' = [pt_out EXCEPT !.cut = Truncate(pt_out.made.text, pt_in.limit)]
    /\ UNCHANGED pt_in
    /\ UNCHANGED <<coreVars, cnVars, sbVars, hqVars, gnVars, btVars, extVars>>

PtNext == PtConstruct \/ PtTruncate

----------------------------------------------------------------------------
(* The prompt texts a request submits: ProcessImageWorkflowUseCase hands   *)
(* the configured system prompt to analyze_image and the text it returns   *)
(* to every generate_image; both reach GeminiPromptManager.send_prompt     *)

(* config.prompt_text: the contents of prompt.txt, "" when it is missing *)
SystemPrompts == PromptTexts
(* get_response_text: stripped text longer than the acceptance floor *)
Answers == {Str(0, c, 0) : c \in {MinResponseLen + 1} \cup CapLens}

(* send_prompt(prompt_text): WRITE_PROMPT gets the text as it was given *)
SendPrompt(sent, prompt_text) == Append(sent, prompt_text)

SbIdle ==
    /\ sb_in = [system |-> Str(0, 1, 0), answer |-> Str(0, MinResponseLen + 1, 0), target |-> 1]
    /\ sb_pc = "idle"
    /\ sb_sent = <<>>

SbInit ==
    /\ sb_in \in [system : SystemPrompts, answer : Answers, target : 1..MaxCount]
    /\ sb_pc = "analysis"
    /\ sb_sent = <<>>

(* analyze_image(image, system_prompt): send_prompt(prompt) *)
SbAnalyze ==
    /\ sb_pc = "analysis"
    /\ sb_sent' = SendPrompt(sb_sent, sb_in.system)
    /\ sb_pc' = "images"
    /\ UNCHANGED sb_in
    /\ UNCHANGED <<coreVars, cnVars, ptVars, hqVars, gnVars, btVars, extVars>>

(* generate_image(extracted_prompt), once per image: send_prompt(prompt) *)
SbGenerate ==
    /\ sb_pc = "images"
    /\ sb_sent' = SendPrompt(sb_sent, sb_in.answer)
    /\ sb_pc' = IF Len(sb_sent) = sb_in.target THEN "done" ELSE "images"
    /\ UNCHANGED sb_in
    /\ UNCHANGED <<coreVars, cnVars, ptVars, hqVars, gnVars, btVars, extVars>>

SbNext == SbAnalyze \/ SbGenerate

----------------------------------------------------------------------------
(* _get_high_quality_url (infrastructure/ai/downloader.py)                 *)

MaxUrlLen == 4         \* the longest URL explored, in pieces
(* A URL is a sequence of pieces: '=' itself, or text holding no '=' *)
UrlPieces == {"abcXYZ", "=", "w512-h512"}
ImageUrls == UNION {[1..n -> UrlPieces] : n \in 0..MaxUrlLen}

HasEquals(url) == \E i \in 1..Len(url) : url[i] = "="
FirstEquals(url) == CHOOSE i \in 1..Len(url) :
                        url[i] = "=" /\ \A j \in 1..(i - 1) : url[j] # "="
(* url.split('=')[0] *)
SplitFirst(url) == SubSeq(url, 1, FirstEquals(url) - 1)

GetHighQualityUrl(url) ==
    IF HasEquals(url) THEN SplitFirst(url) \o <<"=", "s4096">>
    ELSE url

HqIdle ==
    /\ hq_in = <<>>
    /\ hq_out = [called |-> FALSE, url |-> <<>>]

HqInit ==
    /\ hq_in \in ImageUrls
    /\ hq_out = [called |-> FALSE, url |-> <<>>]

HqRewrite ==
    /\ ~hq_out.called
    /\ hq_out' = [called |-> TRUE, url |-> GetHighQualityUrl(hq_in)]
    /\ UNCHANGED hq_in
    /\ UNCHANGED <<coreVars, cnVars, ptVars, sbVars, gnVars, btVars, extVars>>

HqNext == HqRewrite

----------------------------------------------------------------------------
(* GeminiAIService.generate_image (infrastructure/ai/gemini_service.py)    *)
(* and GeminiImageGenerator.wait_for_image_generation                      *)

(* What one call meets: the browser, the tool selection's verdict, the     *)
(* prompt submission, the generated-image marker and the download          *)
GenerateInputs == [browser : {"running", "stopped", "fails"},
                   tool : BOOLEAN,
                   send : {"ok", "raises"},
                   marker : {"present", "timeout", "throws"},
                   download : {"path", "raises"}]

GnReturned == [kind |-> "returned", cls |-> "none"]
GnRaised(cls) == [kind |-> "raised", cls |-> cls]
GnPending == [kind |-> "none", cls |-> "none"]

(* Mutant: a marker that never shows is logged and the method returns *)
WaitForImageGenerationSilent(marker) == GnReturned

(* wait_for_image_generation: wait.until(presence of IMAGE_BUTTON); a      *)
(* timeout and any other exception leave as ImageGenerationError           *)
WaitForImageGeneration(marker) ==
    IF marker = "present" THEN GnReturned
    ELSE GnRaised("ImageGenerationError")

(* generate_image ends: it returns the image or the exception leaves it *)
GnEnd(out) ==
    /\ gn_pc' = out.kind
    /\ gn_result' = out

GnIdle ==
    /\ gn_in = [browser |-> "running", tool |-> TRUE, send |-> "ok",
                marker |-> "present", download |-> "path"]
    /\ gn_pc = "idle"
    /\ gn_trace = <<>>
    /\ gn_result = GnPending

GnInit ==
    /\ gn_in \in GenerateInputs
    /\ gn_pc = "ensure_browser"
    /\ gn_trace = <<>>
    /\ gn_result = GnPending

(* self._ensure_browser() *)
GnEnsureBrowser ==
    /\ gn_pc = "ensure_browser"
    /\ gn_trace' = Append(gn_trace, "ensure_browser")
    /\ IF gn_in.browser = "fails"
       THEN GnEnd(GnRaised("BrowserError"))
       ELSE gn_pc' = "select_tool" /\ gn_result' = gn_result
    /\ UNCHANGED gn_in
    /\ UNCHANGED <<coreVars, cnVars, ptVars, sbVars, hqVars, btVars, extVars>>

(* self._image_generator.select_image_generation_tool(): the value it      *)
(* returns is dropped                                                      *)
GnSelectTool ==
    /\ gn_pc = "select_tool"
    /\ gn_trace' = Append(gn_trace, "select_image_generation_tool")
    /\ gn_pc' = "send_prompt"
    /\ UNCHANGED <<gn_in, gn_result>>
    /\ UNCHANGED <<coreVars, cnVars, ptVars, sbVars, hqVars, btVars, extVars>>

(* self._prompt_manager.send_prompt(prompt) *)
GnSendPrompt ==
    /\ gn_pc = "send_prompt"
    /\ gn_trace' = Append(gn_trace, "send_prompt")
    /\ IF gn_in.send = "raises"
       THEN GnEnd(GnRaised("AIServiceError"))
       ELSE gn_pc' = "wait" /\ gn_result' = gn_result
    /\ UNCHANGED gn_in
    /\ UNCHANGED <<coreVars, cnVars, ptVars, sbVars, hqVars, btVars, extVars>>

(* self._image_generator.wait_for_image_generation() *)
GnWaitForImage ==
    /\ gn_pc = "wait"
    /\ gn_trace' = Append(gn_trace, "wait_for_image_generation")
    /\ LET out == WaitForImageGeneration(gn_in.marker) IN
       IF out.kind = "raised"
       THEN GnEnd(out)
       ELSE gn_pc' = "download" /\ gn_result' = gn_result
    /\ UNCHANGED gn_in
    /\ UNCHANGED <<coreVars, cnVars, ptVars, sbVars, hqVars, btVars, extVars>>

(* return self._image_generator.download_generated_image() *)
GnDownload ==
    /\ gn_pc = "download"
    /\ gn_trace' = Append(gn_trace, "download_generated_image")
    /\ IF gn_in.download = "raises"
       THEN GnEnd(GnRaised("DownloadError"))
       ELSE GnEnd(GnReturned)
    /\ UNCHANGED gn_in
    /\ UNCHANGED <<coreVars, cnVars, ptVars, sbVars, hqVars, btVars, extVars>>

GnNext == GnEnsureBrowser \/ GnSelectTool \/ GnSendPrompt \/ GnWaitForImage \/ GnDownload

----------------------------------------------------------------------------
(* The bot: one Application built without concurrent_updates               *)
(* (presentation/bot.py), whose handlers share the container's single      *)
(* browser service                                                         *)

MaxUpdates == 3        \* updates the users send
Users == {"u1", "u2"}
UpdateKinds == {"photo", "count", "cancel", "login"}
Update(user, kind) == [user |-> user, kind |-> kind]

(* The browser operations of a handler, in order: handle_count checks the  *)
(* session, runs the workflow and its finally block stops the browser;     *)
(* login_handler starts the browser and opens the app                      *)
Steps(kind) ==
    IF kind = "count" THEN <<"check_session", "analyze", "generate", "stop">>
    ELSE IF kind = "login" THEN <<"start", "navigate_to">>
    ELSE <<>>

Task(user, kind, pc) == [user |-> user, kind |-> kind, pc |-> pc]
Running(t) == t.pc > 0
InFlight(tasks) == {i \in 1..Len(tasks) : Running(tasks[i])}
(* Handlers whose workflow holds the browser: past the session check and   *)
(* not yet through the finally block                                       *)
Using(tasks) == {i \in InFlight(tasks) : tasks[i].kind = "count" /\ tasks[i].pc > 1}

(* Mutant: updates are handled concurrently *)
FreeAlways(tasks) == TRUE

(* Application.builder().token(...).build(): the next update is taken up   *)
(* when the handler of the one before has returned                         *)
Free(tasks) == InFlight(tasks) = {}

Snapshot(running, tasks, conv, data, log) ==
    [running |-> running, tasks |-> tasks, conv |-> conv, data |-> data, log |-> log]
Quiet == Snapshot(FALSE, <<>>, [u \in Users |-> "END"], [u \in Users |-> "empty"], <<>>)
NoCancel == [called |-> FALSE, user |-> "u1", in_conversation |-> FALSE,
             was |-> Quiet, now |-> Quiet]

BtIdle ==
    /\ bt_queue = <<>>
    /\ bt_sent = MaxUpdates
    /\ bt_conv = [u \in Users |-> "END"]
    /\ bt_data = [u \in Users |-> "empty"]
    /\ bt_tasks = <<>>
    /\ bt_running = FALSE
    /\ bt_log = <<>>
    /\ bt_cancel = NoCancel

(* The bot is up; some users have sent a photo and been asked the count *)
BtInit ==
    /\ bt_queue = <<>>
    /\ bt_sent = 0
    /\ bt_conv \in [Users -> {"END", "WAITING_FOR_COUNT"}]
    /\ bt_data = [u \in Users |-> IF bt_conv[u] = "END" THEN "empty" ELSE "image"]
    /\ bt_tasks = <<>>
    /\ bt_running = FALSE
    /\ bt_log = <<>>
    /\ bt_cancel = NoCancel

(* A user sends a message *)
BtReceive ==
    /\ bt_sent < MaxUpdates
    /\ \E u \in Users, k \in UpdateKinds :
         bt_queue' = Append(bt_queue, Update(u, k))
    /\ bt_sent' = bt_sent + 1
    /\ UNCHANGED <<bt_conv, bt_data, bt_tasks, bt_running, bt_log, bt_cancel>>
    /\ UNCHANGED <<coreVars, cnVars, ptVars, sbVars, hqVars, gnVars, extVars>>

Arrived(kind) == bt_queue # <<>> /\ bt_queue[1].kind = kind /\ Free(bt_tasks)

(* handle_photo: an entry point, taken when the user is in no conversation *)
BtHandlePhoto ==
    /\ Arrived("photo")
    /\ bt_queue' = Tail(bt_queue)
    /\ LET u == bt_queue[1].user IN
       IF bt_conv[u] = "END"
       THEN /\ bt_conv' = [bt_conv EXCEPT ![u] = "WAITING_FOR_COUNT"]
            /\ bt_data' = [bt_data EXCEPT ![u] = "image"]
       ELSE UNCHANGED <<bt_conv, bt_data>>
    /\ UNCHANGED <<bt_sent, bt_tasks, bt_running, bt_log, bt_cancel>>
    /\ UNCHANGED <<coreVars, cnVars, ptVars, sbVars, hqVars, gnVars, extVars>>

(* Mutant: cancelling also stops the browser *)
CancelStopsBrowser(running) == FALSE

(* cancel_handler leaves the browser service alone *)
CancelBrowser(running) == running

(* cancel_handler: a fallback, taken when the user is in the conversation; *)
(* user_data.clear() and ConversationHandler.END                           *)
BtCancel ==
    /\ Arrived("cancel")
    /\ bt_queue' = Tail(bt_queue)
    /\ LET u == bt_queue[1].user IN
       /\ IF bt_conv[u] = "WAITING_FOR_COUNT"
          THEN /\ bt_conv' = [bt_conv EXCEPT ![u] = "END"]
               /\ bt_data' = [bt_data EXCEPT ![u] = "empty"]
               /\ bt_running' = CancelBrowser(bt_running)
          ELSE UNCHANGED <<bt_conv, bt_data, bt_running>>
       /\ bt_cancel' = [called |-> TRUE, user |-> u,
                        in_conversation |-> bt_conv[u] = "WAITING_FOR_COUNT",
                        was |-> Snapshot(bt_running, bt_tasks, bt_conv, bt_data, bt_log),
                        now |-> Snapshot(bt_running', bt_tasks, bt_conv', bt_data', bt_log)]
    /\ UNCHANGED <<bt_sent, bt_tasks, bt_log>>
    /\ UNCHANGED <<coreVars, cnVars, ptVars, sbVars, hqVars, gnVars, extVars>>

(* login_handler begins *)
BtLogin ==
    /\ Arrived("login")
    /\ bt_queue' = Tail(bt_queue)
    /\ bt_tasks' = Append(bt_tasks, Task(bt_queue[1].user, "login", 1))
    /\ UNCHANGED <<bt_sent, bt_conv, bt_data, bt_running, bt_log, bt_cancel>>
    /\ UNCHANGED <<coreVars, cnVars, ptVars, sbVars, hqVars, gnVars, extVars>>

(* handle_count begins on a valid count: without the photo it ends the     *)
(* conversation at once                                                    *)
BtHandleCount ==
    /\ Arrived("count")
    /\ bt_queue' = Tail(bt_queue)
    /\ LET u == bt_queue[1].user IN
       IF bt_conv[u] # "WAITING_FOR_COUNT"
       THEN UNCHANGED <<bt_conv, bt_data, bt_tasks>>
       ELSE bt_tasks' = Append(bt_tasks, Task(u, "count", 1))
            /\ UNCHANGED <<bt_conv, bt_data>>
    /\ UNCHANGED <<bt_sent, bt_running, bt_log, bt_cancel>>
    /\ UNCHANGED <<coreVars, cnVars, ptVars, sbVars, hqVars, gnVars, extVars>>

(* The browser after one operation: the session check, the workflow and    *)
(* /login start it when it is not running; stop() closes it                *)
BrowserAfter(running, step) == step # "stop"

(* A handler performs its next browser operation.  An invalid session ends *)
(* handle_count after the check; a failed phase goes to the finally block; *)
(* handle_count clears user_data and ends the conversation when it returns *)
BtStep ==
    \E i \in InFlight(bt_tasks) :
       LET t == bt_tasks[i]
           step == Steps(t.kind)[t.pc]
       IN
       /\ bt_log' = Append(bt_log, [id |-> i, step |-> step,
                                    others |-> Using(bt_tasks) \ {i}])
       /\ bt_running' = BrowserAfter(bt_running, step)
       /\ \E out \in {"ok", "failed"} :
            LET next == IF t.pc = Len(Steps(t.kind)) THEN 0
                        ELSE IF out = "ok" THEN t.pc + 1
                        ELSE IF step = "check_session" THEN 0
                        ELSE IF t.kind = "count" THEN Len(Steps("count"))
                        ELSE 0
            IN
            /\ bt_tasks' = [bt_tasks EXCEPT ![i] = Task(t.user, t.kind, next)]
            /\ IF next = 0 /\ t.kind = "count"
               THEN /\ bt_conv' = [bt_conv EXCEPT ![t.user] = "END"]
                    /\ bt_data' = [bt_data EXCEPT ![t.user] = "empty"]
               ELSE UNCHANGED <<bt_conv, bt_data>>
       /\ UNCHANGED <<bt_queue, bt_sent, bt_cancel>>
       /\ UNCHANGED <<coreVars, cnVars, ptVars, sbVars, hqVars, gnVars, extVars>>

BtNext == BtReceive \/ BtHandlePhoto \/ BtCancel \/ BtLogin \/ BtHandleCount \/ BtStep

AppIdle == CnIdle /\ PtIdle /\ SbIdle /\ HqIdle /\ GnIdle /\ BtIdle

----------------------------------------------------------------------------
(* GenerateImagesUseCase.execute over a ProcessContext                      *)
(* (src/src/application/use_cases/process_images.py,                        *)
(*  src/src/domain/entities.py)                                             *)

MaxTarget == 2          \* the largest target_count explored

\* target_count is a plain int field of the dataclass: nothing validates it
Targets == -1 .. MaxTarget

Error(cls, message, details) == [cls |-> cls, message |-> message, details |-> details]

\* what the gateway and the AI service raise when they fail
GatewayError == Error("NetworkError", "timed out", "")
AnalysisError == Error("ResponseError", "no response", "selector")
GenerationError == Error("ImageGenerationError", "no image", "")
NoError == Error("none", "", "")

\* DomainException.__str__
ErrorText(e) ==
    IF e.details # "" THEN e.message \o " | Detay: " \o e.details ELSE e.message

Prompts == {"a cat", "a dog", "a bird"}

\* ProcessContext(session, original_image, target_count): the field defaults
ProcessContext(target_count) ==
    [target_count |-> target_count,
     status |-> "PENDING",
     generated_images |-> <<>>,
     extracted_prompt |-> "None",
     error_message |-> "None"]

CxNone == [kind |-> "none", images |-> <<>>, error |-> NoError]
CxReturned(images) == [kind |-> "returned", images |-> images, error |-> NoError]
CxRaised(e) == [kind |-> "raised", images |-> <<>>, error |-> e]

InRangeInclusive(i, target_count) == i <= target_count

\* range(context.target_count) still has an item after i iterations
InRange(i, target_count) == i < target_count

CxIdle ==
    /\ cx_ctx = ProcessContext(0)
    /\ cx_pc = "idle"
    /\ cx_i = 0
    /\ cx_exc = NoError
    /\ cx_hist = <<>>
    /\ cx_out = CxNone

CxInit ==
    /\ cx_ctx \in {ProcessContext(t) : t \in Targets}
    /\ cx_pc = "start"
    /\ cx_i = 0
    /\ cx_exc = NoError
    /\ cx_hist = <<"PENDING">>
    /\ cx_out = CxNone

\* a statement of the try block raised e: control moves to the except clause
CxCatch(e) ==
    /\ cx_exc' = e
    /\ cx_pc' = "except"

\* lines 17-18: status ANALYZING, then the progress message
CxBegin ==
    /\ cx_pc = "start"
    /\ cx_ctx' = [cx_ctx EXCEPT !.status = "ANALYZING"]
    /\ cx_hist' = Append(cx_hist, "ANALYZING")
    /\ \/ cx_pc' = "analyze" /\ UNCHANGED cx_exc
       \/ CxCatch(GatewayError)
    /\ UNCHANGED <<cx_i, cx_out>>
    /\ UNCHANGED <<coreVars, appVars, cxRest>>

\* lines 19-23: analyze_image, extracted_prompt, status GENERATING
CxAnalyze ==
    /\ cx_pc = "analyze"
    /\ \/ \E p \in Prompts :
            /\ cx_ctx' = [cx_ctx EXCEPT !.extracted_prompt = p,
                                        !.status = "GENERATING"]
            /\ cx_hist' = Append(cx_hist, "GENERATING")
            /\ cx_pc' = "loop"
            /\ UNCHANGED cx_exc
       \/ /\ CxCatch(AnalysisError)
          /\ UNCHANGED <<cx_ctx, cx_hist>>
    /\ UNCHANGED <<cx_i, cx_out>>
    /\ UNCHANGED <<coreVars, appVars, cxRest>>

\* lines 24-25: the loop has another item; the progress message of that image
CxAnnounce ==
    /\ cx_pc = "loop"
    /\ InRange(cx_i, cx_ctx.target_count)
    /\ \/ cx_pc' = "generate" /\ UNCHANGED cx_exc
       \/ CxCatch(GatewayError)
    /\ UNCHANGED <<cx_ctx, cx_i, cx_hist, cx_out>>
    /\ UNCHANGED <<coreVars, appVars, cxRest>>

\* lines 26-27: generate_image and the append
CxGenerate ==
    /\ cx_pc = "generate"
    /\ \/ /\ cx_ctx' = [cx_ctx EXCEPT !.generated_images = Append(@, cx_i + 1)]
          /\ cx_pc' = "send_image"
          /\ UNCHANGED cx_exc
       \/ /\ CxCatch(GenerationError)
          /\ UNCHANGED cx_ctx
    /\ UNCHANGED <<cx_i, cx_hist, cx_out>>
    /\ UNCHANGED <<coreVars, appVars, cxRest>>

\* line 28: send_image, then the next item of the range
CxSendImage ==
    /\ cx_pc = "send_image"
    /\ \/ /\ cx_pc' = "loop"
          /\ cx_i' = cx_i + 1
          /\ UNCHANGED cx_exc
       \/ /\ CxCatch(GatewayError)
          /\ UNCHANGED cx_i
    /\ UNCHANGED <<cx_ctx, cx_hist, cx_out>>
    /\ UNCHANGED <<coreVars, appVars, cxRest>>

\* lines 30-31: the range is exhausted
CxComplete ==
    /\ cx_pc = "loop"
    /\ ~InRange(cx_i, cx_ctx.target_count)
    /\ cx_ctx' = [cx_ctx EXCEPT !.status = "COMPLETED"]
    /\ cx_hist' = Append(cx_hist, "COMPLETED")
    /\ cx_out' = CxReturned(cx_ctx.generated_images)
    /\ cx_pc' = "done"
    /\ UNCHANGED <<cx_i, cx_exc>>
    /\ UNCHANGED <<coreVars, appVars, cxRest>>

\* lines 33-37: the except clause; its own send_message may raise as well
CxExcept ==
    /\ cx_pc = "except"
    /\ cx_ctx' = [cx_ctx EXCEPT !.status = "FAILED",
                                !.error_message = ErrorText(cx_exc)]
    /\ cx_hist' = Append(cx_hist, "FAILED")
    /\ \/ cx_out' = CxRaised(cx_exc)
       \/ cx_out' = CxRaised(GatewayError)
    /\ cx_pc' = "done"
    /\ UNCHANGED <<cx_i, cx_exc>>
    /\ UNCHANGED <<coreVars, appVars, cxRest>>

CxNext ==
    CxBegin \/ CxAnalyze \/ CxAnnounce \/ CxGenerate \/ CxSendImage
        \/ CxComplete \/ CxExcept

----------------------------------------------------------------------------
(* ProgressNotifierService (src/src/application/services/__init__.py)       *)

MaxCalls == 4           \* calls made on one notifier

\* the clock counts half seconds: _min_update_interval is 1.5 s
MinUpdateInterval == 3

\* time that passes between two calls on the notifier, in half seconds
Delays == {1, 3}

\* time.time() when the notifier is constructed; _last_update starts at 0
NtStart == StartNow

STEPS ==
    <<"DOWNLOADING", "BROWSER_STARTING", "NAVIGATING", "UPLOADING", "ANALYZING",
      "WAITING_RESPONSE", "PROMPT_RECEIVED", "GENERATING", "DOWNLOADING_RESULT">>

\* __init__
Notifier(total_images) ==
    [total_images |-> total_images,
     current_image |-> 0,
     completed_images |-> 0,
     current_step |-> 0,
     last_update |-> 0,
     is_completed |-> FALSE]

\* _get_step_index: the 0-based place of the status in STEPS
GetStepIndex(n, status) ==
    IF \E i \in 1..Len(STEPS) : STEPS[i] = status
    THEN (CHOOSE i \in 1..Len(STEPS) : STEPS[i] = status) - 1
    ELSE n.current_step

Message(kind, success, step, image, completed) ==
    [kind |-> kind, success |-> success, step |-> step, image |-> image,
     completed |-> completed]

\* _build_message: the lines that carry state; a count of 0 stands for a
\* line that is left out
BuildMessage(n) ==
    Message("progress", FALSE, n.current_step,
            IF n.total_images > 1 THEN n.current_image ELSE 0,
            IF n.total_images > 1 THEN n.completed_images ELSE 0)

\* the text notify_complete builds
SummaryText(n, success) ==
    Message("summary", success, n.current_step, 0,
            IF ~success /\ n.completed_images > 0 THEN n.completed_images ELSE 0)

\* update_callback(text): delivered unless editing the status message fails
Callback(text, delivered) == IF delivered THEN <<text>> ELSE <<>>

Notified(n, out) == [n |-> n, out |-> out]

\* the rate limit shared by notify_step and notify_image_progress
RateLimited(n, t, delivered) ==
    IF t - n.last_update < MinUpdateInterval
    THEN Notified(n, <<>>)
    ELSE LET m == [n EXCEPT !.last_update = t]
         IN Notified(m, Callback(BuildMessage(m), delivered))

NotifyStepAlways(n, status, t, delivered) ==
    RateLimited([n EXCEPT !.current_step = GetStepIndex(n, status)], t, delivered)

NotifyStep(n, status, t, delivered) ==
    IF n.is_completed THEN Notified(n, <<>>)
    ELSE RateLimited([n EXCEPT !.current_step = GetStepIndex(n, status)],
                     t, delivered)

NotifyImageProgress(n, current, total, t, delivered) ==
    IF n.is_completed THEN Notified(n, <<>>)
    ELSE RateLimited([n EXCEPT !.current_image = current,
                               !.total_images = total,
                               !.completed_images = current], t, delivered)

NotifyComplete(n, success, delivered) ==
    IF n.is_completed THEN Notified(n, <<>>)
    ELSE LET m == [n EXCEPT !.is_completed = TRUE]
         IN Notified(m, Callback(SummaryText(m, success), delivered))

NtLog(calls, mark) == [calls |-> calls, mark |-> mark]

\* the calls made on the notifier, and the number of messages that had been
\* delivered when the first notify_complete returned (-1 before that)
NtMade(log, call, sent) ==
    NtLog(Append(log.calls, call),
          IF log.mark = -1 /\ call = "notify_complete" THEN Len(sent)
          ELSE log.mark)

NtIdle ==
    /\ nt_obj = Notifier(1)
    /\ nt_now = NtStart
    /\ nt_sent = <<>>
    /\ nt_log = NtLog(<<>>, -1)

NtInit ==
    /\ nt_obj \in {Notifier(t) : t \in 1..MaxTarget}
    /\ nt_now = NtStart
    /\ nt_sent = <<>>
    /\ nt_log = NtLog(<<>>, -1)

\* one call on the notifier, some time after the previous one
NtCall(call, r(_), d) ==
    /\ Len(nt_log.calls) < MaxCalls
    /\ nt_now' = nt_now + d
    /\ nt_obj' = r(nt_now + d).n
    /\ nt_sent' = nt_sent \o r(nt_now + d).out
    /\ nt_log' = NtMade(nt_log, call, nt_sent \o r(nt_now + d).out)

NtNotifyStep ==
    /\ \E status \in {"GENERATING", "COMPLETED"}, d \in Delays,
          delivered \in BOOLEAN :
            LET r(t) == NotifyStep(nt_obj, status, t, delivered)
            IN NtCall("notify_step", r, d)
    /\ UNCHANGED <<coreVars, appVars, ntRest>>

NtNotifyImageProgress ==
    /\ \E current \in 1..nt_obj.total_images, d \in Delays, delivered \in BOOLEAN :
            LET r(t) == NotifyImageProgress(nt_obj, current, nt_obj.total_images,
                                            t, delivered)
            IN NtCall("notify_image_progress", r, d)
    /\ UNCHANGED <<coreVars, appVars, ntRest>>

NtNotifyComplete ==
    /\ \E success \in BOOLEAN, d \in Delays, delivered \in BOOLEAN :
            LET r(t) == NotifyComplete(nt_obj, success, delivered)
            IN NtCall("notify_complete", r, d)
    /\ UNCHANGED <<coreVars, appVars, ntRest>>

NtNext == NtNotifyStep \/ NtNotifyImageProgress \/ NtNotifyComplete

----------------------------------------------------------------------------
(* GenerateImageUseCase.execute and the notifier it reports to              *)
(* (src/src/application/use_cases/generate_image.py)                        *)

GiNone == [kind |-> "none", images |-> <<>>]
GiReturned(images) == [kind |-> "returned", images |-> images]
GiRaised(cls) == [kind |-> cls, images |-> <<>>]

Attempt(i, out) == [i |-> i, out |-> out]

FinishAlways(generated_images) == GiReturned(generated_images)

\* lines 76-82: what execute hands back once the loop is over
Finish(generated_images) ==
    IF generated_images = <<>> THEN GiRaised("ImageGenerationError")
    ELSE GiReturned(generated_images)

GiIdle ==
    /\ gi_in = [count |-> 0, notifier |-> FALSE]
    /\ gi_pc = "idle"
    /\ gi_i = 0
    /\ gi_images = <<>>
    /\ gi_tried = <<>>
    /\ gi_out = GiNone

\* the handler builds the notifier with total_images = count
GiInit ==
    /\ gi_in \in [count : Targets, notifier : BOOLEAN]
    /\ gi_pc = "loop"
    /\ gi_i = 1
    /\ gi_images = <<>>
    /\ gi_tried = <<>>
    /\ gi_out = GiNone
    /\ nt_obj = Notifier(gi_in.count)
    /\ nt_now = NtStart
    /\ nt_sent = <<>>
    /\ nt_log = NtLog(<<>>, -1)

\* the except clause of the loop body: log, then the next i
GiContinue(out) ==
    /\ gi_tried' = Append(gi_tried, Attempt(gi_i, out))
    /\ gi_i' = gi_i + 1
    /\ gi_pc' = "loop"

\* lines 53-60: the next i of range(1, count + 1); image progress and step
\* are reported before anything is generated
GiNotify ==
    /\ gi_pc = "loop"
    /\ gi_i <= gi_in.count
    /\ gi_pc' = "session"
    /\ IF gi_in.notifier
       THEN \E d \in Delays, delivered \in BOOLEAN :
              LET t == nt_now + d
                  a == NotifyImageProgress(nt_obj, gi_i, gi_in.count, t, delivered)
                  b == NotifyStep(a.n, "GENERATING", t, delivered)
              IN /\ nt_now' = t
                 /\ nt_obj' = b.n
                 /\ nt_sent' = nt_sent \o a.out \o b.out
                 /\ nt_log' = NtLog(nt_log.calls \o <<"notify_image_progress",
                                                      "notify_step">>, nt_log.mark)
       ELSE UNCHANGED ntVars
    /\ UNCHANGED <<gi_in, gi_i, gi_images, gi_tried, gi_out>>
    /\ UNCHANGED <<coreVars, appVars, giRest>>

\* line 63: start_new_session
GiStartSession ==
    /\ gi_pc = "session"
    /\ \/ gi_pc' = "generate" /\ UNCHANGED <<gi_i, gi_tried>>
       \/ GiContinue("session_failed")
    /\ UNCHANGED <<gi_in, gi_images, gi_out, ntVars>>
    /\ UNCHANGED <<coreVars, appVars, giRest>>

\* lines 66-67: generate_image and the append
GiGenerate ==
    /\ gi_pc = "generate"
    /\ \/ /\ gi_images' = Append(gi_images, gi_i)
          /\ GiContinue("generated")
       \/ /\ GiContinue("generate_failed")
          /\ UNCHANGED gi_images
    /\ UNCHANGED <<gi_in, gi_out, ntVars>>
    /\ UNCHANGED <<coreVars, appVars, giRest>>

\* lines 76-82: the loop is over
GiFinish ==
    /\ gi_pc = "loop"
    /\ gi_i > gi_in.count
    /\ gi_out' = Finish(gi_images)
    /\ gi_pc' = "report"
    /\ UNCHANGED <<gi_in, gi_i, gi_images, gi_tried, ntVars>>
    /\ UNCHANGED <<coreVars, appVars, giRest>>

\* handle_count: the workflow turns the error into a failed result, and the
\* handler reports the result through notify_complete
GiReport ==
    /\ gi_pc = "report"
    /\ gi_pc' = "done"
    /\ IF gi_in.notifier
       THEN \E d \in Delays, delivered \in BOOLEAN :
              LET r == NotifyComplete(nt_obj, gi_out.kind = "returned", delivered)
              IN /\ nt_now' = nt_now + d
                 /\ nt_obj' = r.n
                 /\ nt_sent' = nt_sent \o r.out
                 /\ nt_log' = NtMade(nt_log, "notify_complete", nt_sent \o r.out)
       ELSE UNCHANGED ntVars
    /\ UNCHANGED <<gi_in, gi_i, gi_images, gi_tried, gi_out>>
    /\ UNCHANGED <<coreVars, appVars, giRest>>

GiNext == GiNotify \/ GiStartSession \/ GiGenerate \/ GiFinish \/ GiReport

----------------------------------------------------------------------------
(* retry_on_exception (src/src/infrastructure/utils/retry.py)               *)

MaxAttempts == 3           \* the largest max_attempts explored

\* the arguments of the decorator
RetryInputs ==
    [max_attempts : 0..MaxAttempts, delay : {1, 2}, backoff : {1, 2},
     max_delay : {2, 3}, on_retry : BOOLEAN]

RtEvent(ev, n, res) == [ev |-> ev, n |-> n, res |-> res]

\* the exception the wrapped function raised in its n-th invocation
RtExc(cls, n) == [cls |-> cls, n |-> n]
NoException == RtExc("None", 0)

RtNone == [kind |-> "none", value |-> 0, exc |-> NoException]
RtReturned(value) == [kind |-> "returned", value |-> value, exc |-> NoException]
RtRaised(exc) == [kind |-> "raised", value |-> 0, exc |-> exc]

MoreAttemptsAlways(attempt, max_attempts) == TRUE

\* attempt < max_attempts: another attempt will follow this one
MoreAttempts(attempt, max_attempts) == attempt < max_attempts

\* raise last_exception: raising None is a TypeError
RaiseLast(last_exception) ==
    IF last_exception = NoException THEN RtRaised(RtExc("TypeError", 0))
    ELSE RtRaised(last_exception)

RtIdle ==
    /\ rt_in = [max_attempts |-> 0, delay |-> 1, backoff |-> 1, max_delay |-> 2,
                on_retry |-> FALSE]
    /\ rt_pc = "idle"
    /\ rt_attempt = 0
    /\ rt_delay = 0
    /\ rt_last = NoException
    /\ rt_log = <<>>
    /\ rt_out = RtNone

\* wrapper entered: current_delay = delay, last_exception = None, attempt = 1
RtInit ==
    /\ rt_in \in RetryInputs
    /\ rt_pc = "call"
    /\ rt_attempt = 1
    /\ rt_delay = rt_in.delay
    /\ rt_last = NoException
    /\ rt_log = <<>>
    /\ rt_out = RtNone

\* one invocation of func inside the try: it returns, raises one of the
\* configured exception types, or raises something else
RtInvoke ==
    /\ rt_pc = "call"
    /\ rt_attempt <= rt_in.max_attempts
    /\ \/ /\ rt_log' = Append(rt_log, RtEvent("call", rt_attempt, "returned"))
          /\ rt_out' = RtReturned(rt_attempt)
          /\ rt_pc' = "done"
          /\ UNCHANGED <<rt_last, rt_attempt>>
       \/ /\ rt_log' = Append(rt_log, RtEvent("call", rt_attempt, "other"))
          /\ rt_out' = RtRaised(RtExc("Other", rt_attempt))
          /\ rt_pc' = "done"
          /\ UNCHANGED <<rt_last, rt_attempt>>
       \/ /\ rt_log' = Append(rt_log, RtEvent("call", rt_attempt, "configured"))
          /\ rt_last' = RtExc("Configured", rt_attempt)
          /\ IF MoreAttempts(rt_attempt, rt_in.max_attempts)
             THEN rt_pc' = "retry" /\ UNCHANGED rt_attempt
             ELSE rt_pc' = "call" /\ rt_attempt' = rt_attempt + 1
          /\ UNCHANGED rt_out
    /\ UNCHANGED <<rt_in, rt_delay>>
    /\ UNCHANGED <<coreVars, appVars, rtRest>>

\* the branch before the next attempt: on_retry, the sleep, the backoff;
\* an exception of on_retry leaves the wrapper
RtBackOff ==
    /\ rt_pc = "retry"
    /\ \/ /\ rt_log' = rt_log
                \o (IF rt_in.on_retry
                    THEN <<RtEvent("on_retry", rt_attempt, "returned")>> ELSE <<>>)
                \o <<RtEvent("sleep", Min(rt_delay, rt_in.max_delay), "returned")>>
          /\ rt_delay' = rt_delay * rt_in.backoff
          /\ rt_attempt' = rt_attempt + 1
          /\ rt_pc' = "call"
          /\ UNCHANGED rt_out
       \/ /\ rt_in.on_retry
          /\ rt_log' = Append(rt_log, RtEvent("on_retry", rt_attempt, "other"))
          /\ rt_out' = RtRaised(RtExc("Callback", rt_attempt))
          /\ rt_pc' = "done"
          /\ UNCHANGED <<rt_delay, rt_attempt>>
    /\ UNCHANGED <<rt_in, rt_last>>
    /\ UNCHANGED <<coreVars, appVars, rtRest>>

\* range(1, max_attempts + 1) is exhausted
RtGiveUp ==
    /\ rt_pc = "call"
    /\ rt_attempt > rt_in.max_attempts
    /\ rt_out' = RaiseLast(rt_last)
    /\ rt_pc' = "done"
    /\ UNCHANGED <<rt_in, rt_attempt, rt_delay, rt_last, rt_log>>
    /\ UNCHANGED <<coreVars, appVars, rtRest>>

RtNext == RtInvoke \/ RtBackOff \/ RtGiveUp

----------------------------------------------------------------------------
(* GeminiAIService and the sub-modules it creates lazily                    *)
(* (src/src/infrastructure/ai/gemini_service.py)                            *)

Modules == {"navigator", "uploader", "prompt_manager", "image_generator"}

Methods == {"check_session", "analyze_image", "generate_image", "start_new_session"}

\* the sub-modules a method of the service delegates to
Uses(method) ==
    CASE method = "check_session" -> {"navigator"}
      [] method = "analyze_image" -> {"navigator", "uploader", "prompt_manager"}
      [] method = "generate_image" -> {"image_generator", "prompt_manager"}
      [] OTHER -> {"navigator"}

\* the lazy initialisation of _ensure_browser: a sub-module that exists is
\* kept, a missing one is built on the driver of the moment
EnsureModules(mods, driver) ==
    [m \in Modules |-> IF mods[m] = 0 THEN driver ELSE mods[m]]

NoServiceCall ==
    [method |-> "none", raised |-> FALSE, targets |-> {}, current |-> 0, live |-> {}]

SvIdle ==
    /\ sv_browser = NoBrowser
    /\ sv_mods = [m \in Modules |-> 0]
    /\ sv_last = NoServiceCall

\* the service as the container builds it: no driver, no sub-module
SvInit ==
    /\ sv_browser = NoBrowser
    /\ sv_mods = [m \in Modules |-> 0]
    /\ sv_last = NoServiceCall

\* one call of a method of the service: _ensure_browser, then the
\* operations of the sub-modules, each on the driver its sub-module holds
SvCall ==
    /\ IsRunning(sv_browser) \/ sv_browser.created < MaxDrivers
    /\ \E method \in Methods, out \in {"ok", "no_driver", "no_window"} :
         LET r == StartBrowser(sv_browser, out)
             mods == EnsureModules(sv_mods, r.b.driver)
         IN /\ sv_browser' = r.b
            /\ IF r.raised
               THEN /\ sv_mods' = sv_mods
                    /\ sv_last' = [method |-> method, raised |-> TRUE,
                                   targets |-> {}, current |-> r.b.driver,
                                   live |-> r.b.live]
               ELSE /\ sv_mods' = mods
                    /\ sv_last' = [method |-> method, raised |-> FALSE,
                                   targets |-> {mods[m] : m \in Uses(method)},
                                   current |-> r.b.driver, live |-> r.b.live]
    /\ UNCHANGED <<coreVars, appVars, svRest>>

\* browser_service.stop(), as the finally block of the workflow calls it
SvStop ==
    /\ \E quitOk \in BOOLEAN :
         sv_browser' = StopBrowser(sv_browser, quitOk).b
    /\ UNCHANGED <<sv_mods, sv_last>>
    /\ UNCHANGED <<coreVars, appVars, svRest>>

SvNext == SvCall \/ SvStop

----------------------------------------------------------------------------
(* The artifacts of one request: the uploaded photo and the files          *)
(* download() returns for its images, all in the same directory             *)
(* (src/src/container.py, src/src/presentation/handlers/photo_handlers.py)  *)

PageLoad == 5          \* GeminiTimeouts.PAGE_LOAD

\* the least time the code lets pass between the end of one image's
\* download and the scan of the next image: the sleeps of start_new_chat,
\* of the tool selection, of send_prompt, of wait_for_image_generation and
\* of download() before its tiers; the generation itself adds what it takes
MinImageGap == MediumWait + MediumWait + (ShortWait + MediumWait) + ResponseCheck
                   + LoadSleep

\* the sleeps of the analysis between the saving of the photo and the first
\* image: navigation, upload and its verification, prompt, response
AnalysisTime == PageLoad + (ClipboardWait + ShortWait + ImageUpload + MediumWait)
                    + (ShortWait + MediumWait) + (LongWait + ResponseCheck)

Gaps == {MinImageGap, FreshWindow, MinImageGap + FreshWindow}

\* _save_image_file: the photo is stored in images_dir, which the container
\* also gives to the downloader as its download_dir
SourceFile == [dir |-> OutDir, kind |-> "source", id |-> 1, ext |-> "jpg",
               ctime |-> StartNow]

\* one download() call at time t on files fs; how = "direct": the fetch
\* wrote generated_<id>.png; "saved": the click made the browser save a
\* file, then the scan ran; "nothing": the scan ran with no new file
Download(fs, t, id, how) ==
    LET direct == [dir |-> OutDir, kind |-> "generated", id |-> id, ext |-> "png",
                   ctime |-> t]
        saved == [dir |-> OutDir, kind |-> "other", id |-> id, ext |-> "png",
                  ctime |-> t]
    IN CASE how = "direct" ->
              [out |-> "path", files |-> Append(fs, direct), path |-> PathOf(direct),
               chosen |-> 0]
         [] how = "saved" -> FindChromeDownload(Append(fs, saved), {OutDir}, t, id, TRUE)
         [] OTHER -> FindChromeDownload(fs, {OutDir}, t, id, TRUE)

RqIdle ==
    /\ rq_target = 0
    /\ rq_files = <<>>
    /\ rq_now = 0
    /\ rq_i = 0
    /\ rq_paths = <<>>

\* the photo was saved at StartNow; the user typed the count at once or
\* later, and the analysis is over
RqInit ==
    /\ rq_target \in 1..MaxTarget
    /\ rq_files = <<SourceFile>>
    /\ rq_now \in {StartNow + AnalysisTime, StartNow + FreshWindow + AnalysisTime}
    /\ rq_i = 0
    /\ rq_paths = <<>>

\* the next image of the request: generate_image up to the end of download()
RqImage ==
    /\ rq_i < rq_target
    /\ \E gap \in Gaps, how \in {"direct", "saved", "nothing"} :
         LET r == Download(rq_files, rq_now + gap, Len(rq_files) + 1, how)
         IN /\ rq_now' = rq_now + gap
            /\ rq_files' = r.files
            /\ rq_paths' = IF r.out = "path" THEN Append(rq_paths, r.path)
                           ELSE rq_paths
    /\ rq_i' = rq_i + 1
    /\ UNCHANGED rq_target
    /\ UNCHANGED <<coreVars, appVars, rqRest>>

RqNext == RqImage

ExtIdle == CxIdle /\ NtIdle /\ GiIdle /\ RtIdle /\ SvIdle /\ RqIdle

----------------------------------------------------------------------------
(* Specifications: one per component, the others idle *)

DlIdle ==
    /\ dirs = {OutDir}
    /\ files = <<>>
    /\ now = StartNow
    /\ nextId = 1
    /\ dl_pc = "idle"
    /\ dl_sel = 0
    /\ dl_trace = <<>>
    /\ dl_clicks = 0
    /\ dl_result = NoResult
    /\ lastScan = NoScan

InitDownload == DlInit /\ BrIdle /\ WfIdle /\ NavIdle /\ GmIdle /\ AppIdle /\ ExtIdle
InitBrowser == DlIdle /\ BrIdle /\ WfIdle /\ NavIdle /\ GmIdle /\ AppIdle /\ ExtIdle
InitWorkflow == DlIdle /\ WfInit /\ NavIdle /\ GmIdle /\ AppIdle /\ ExtIdle
InitNavigator == DlIdle /\ BrIdle /\ WfIdle /\ NavInit /\ GmIdle /\ AppIdle /\ ExtIdle

SpecDownload == InitDownload /\ [][DlNext]_vars
SpecBrowser == InitBrowser /\ [][BrNext]_vars
SpecWorkflow == InitWorkflow /\ [][WfNext]_vars
InitSession == DlIdle /\ BrIdle /\ WfIdle /\ NavInit /\ GmIdle /\ AppIdle /\ ExtIdle
InitNewChat == DlIdle /\ BrIdle /\ WfIdle /\ NavIdle /\ GmIdle /\ AppIdle /\ ExtIdle
InitUpload == DlIdle /\ BrIdle /\ WfIdle /\ NavIdle /\ UpInit /\ RsIdle /\ TlIdle /\ PhIdle /\ AppIdle /\ ExtIdle
InitResponse == DlIdle /\ BrIdle /\ WfIdle /\ NavIdle /\ UpIdle /\ RsInit /\ TlIdle /\ PhIdle /\ AppIdle /\ ExtIdle
InitTool == DlIdle /\ BrIdle /\ WfIdle /\ NavIdle /\ UpIdle /\ RsIdle /\ TlInit /\ PhIdle /\ AppIdle /\ ExtIdle
InitPhases == DlIdle /\ BrIdle /\ WfIdle /\ NavIdle /\ UpIdle /\ RsIdle /\ TlIdle /\ PhInit /\ AppIdle /\ ExtIdle
CoreIdle == DlIdle /\ BrIdle /\ WfIdle /\ NavIdle /\ GmIdle
InitCount == CoreIdle /\ CnInit /\ PtIdle /\ SbIdle /\ HqIdle /\ GnIdle /\ BtIdle /\ ExtIdle
InitPrompt == CoreIdle /\ CnIdle /\ PtInit /\ SbIdle /\ HqIdle /\ GnIdle /\ BtIdle /\ ExtIdle
InitSubmit == CoreIdle /\ CnIdle /\ PtIdle /\ SbInit /\ HqIdle /\ GnIdle /\ BtIdle /\ ExtIdle
InitUrl == CoreIdle /\ CnIdle /\ PtIdle /\ SbIdle /\ HqInit /\ GnIdle /\ BtIdle /\ ExtIdle
InitGenerate == CoreIdle /\ CnIdle /\ PtIdle /\ SbIdle /\ HqIdle /\ GnInit /\ BtIdle /\ ExtIdle
InitBot == CoreIdle /\ CnIdle /\ PtIdle /\ SbIdle /\ HqIdle /\ GnIdle /\ BtInit /\ ExtIdle
SpecCount == InitCount /\ [][CnNext]_vars
SpecPrompt == InitPrompt /\ [][PtNext]_vars
SpecSubmit == InitSubmit /\ [][SbNext]_vars
SpecUrl == InitUrl /\ [][HqNext]_vars
SpecGenerate == InitGenerate /\ [][GnNext]_vars
SpecBot == InitBot /\ [][BtNext]_vars
InitContext == CoreIdle /\ AppIdle /\ CxInit /\ NtIdle /\ GiIdle /\ RtIdle /\ SvIdle /\ RqIdle
SpecContext == InitContext /\ [][CxNext]_vars
InitNotifier == CoreIdle /\ AppIdle /\ CxIdle /\ NtInit /\ GiIdle /\ RtIdle /\ SvIdle /\ RqIdle
InitImages == CoreIdle /\ AppIdle /\ CxIdle /\ GiInit /\ RtIdle /\ SvIdle /\ RqIdle
SpecImages == InitImages /\ [][GiNext]_vars
InitRetry == CoreIdle /\ AppIdle /\ CxIdle /\ NtIdle /\ GiIdle /\ RtInit /\ SvIdle /\ RqIdle
SpecRetry == InitRetry /\ [][RtNext]_vars
InitService == CoreIdle /\ AppIdle /\ CxIdle /\ NtIdle /\ GiIdle /\ RtIdle /\ SvInit /\ RqIdle
SpecService == InitService /\ [][SvNext]_vars
InitArtifacts == CoreIdle /\ AppIdle /\ CxIdle /\ NtIdle /\ GiIdle /\ RtIdle /\ SvIdle /\ RqInit
SpecArtifacts == InitArtifacts /\ [][RqNext]_vars
SpecNotifier == InitNotifier /\ [][NtNext]_vars
SpecPhases == InitPhases /\ [][PhNext]_vars
SpecTool == InitTool /\ [][TlNext]_vars
SpecResponse == InitResponse /\ [][RsNext]_vars
SpecUpload == InitUpload /\ [][UpNext]_vars
SpecSession == InitSession /\ [][SessionNext]_vars
SpecNewChat == InitNewChat /\ [][NewChatNext]_vars
SpecNavigator == InitNavigator /\ [][NavNext]_vars

----------------------------------------------------------------------------
(* Properties of the downloader *)

Tiers == 1..Len(dl_trace)
DlFinished == dl_pc \in {"returned", "raised"}

(* C1: download() attempts its tiers in the order direct fetch, UI button,  *)
(* filesystem scan; a tier is attempted only after every earlier one has   *)
(* failed, and a tier that yields a path is the last one attempted and     *)
(* ends the download with a path.                                          *)
C1_TiersInOrder ==
    /\ Len(dl_trace) <= Len(TierOrder)
    /\ \A i \in Tiers :
         /\ dl_trace[i].tier = TierOrder[i]
         /\ i < Len(dl_trace) => dl_trace[i].out = "failed"
         /\ dl_trace[i].out = "ok" =>
              i = Len(dl_trace) /\ dl_pc = "returned" /\ dl_result.status = "path"
    /\ dl_result.status = "path" =>
         dl_trace # <<>> /\ dl_trace[Len(dl_trace)].out = "ok"

(* C1 witness: the scan tier returned a path after both earlier tiers failed *)
C1_Witness ==
    /\ dl_pc = "returned"
    /\ Len(dl_trace) = 3
    /\ dl_trace[3] = [tier |-> "scan", out |-> "ok"]

(* C2: a failure of the direct-fetch tier, the URL lookup included, never  *)
(* fails download(): whenever download() has raised, the UI-button tier    *)
(* had been attempted.                                                     *)
C2_DirectFailureFallsThrough ==
    dl_pc = "raised" => \E i \in Tiers : dl_trace[i].tier = "button"

(* C3: when all three tiers have failed download() raises DownloadError    *)
(* with the all-strategies-failed message, and download() finishes only    *)
(* with a non-empty path or a DownloadError.                               *)
C3_FailsWithDownloadError ==
    /\ (Len(dl_trace) = 3 /\ \A i \in Tiers : dl_trace[i].out = "failed") =>
         dl_pc = "raised" /\ dl_result = Raised("DownloadError", "all_failed")
    /\ dl_pc = "returned" => dl_result.status = "path" /\ dl_result.path # NoPath
    /\ dl_pc = "raised" => dl_result.status = "raised" /\ dl_result.exc = "DownloadError"
    /\ ~DlFinished => dl_result = NoResult

(* C3 witness: every tier was attempted and failed *)
C3_Witness ==
    /\ dl_pc = "raised"
    /\ Len(dl_trace) = 3
    /\ dl_result.msg = "all_failed"

(* The files a scan at time t may select: image suffix, in a directory     *)
(* that is searched, created less than FreshWindow seconds before t.       *)
Fresh(fs, ds, t) ==
    {i \in 1..Len(fs) : /\ fs[i].dir \in ds
                        /\ Lower(fs[i].ext) \in ImageSuffixes
                        /\ fs[i].ctime > t - FreshWindow
                        /\ fs[i].ctime <= t}
Stale(fs, ds, t) ==
    {i \in 1..Len(fs) : /\ fs[i].dir \in ds
                        /\ Lower(fs[i].ext) \in ImageSuffixes
                        /\ fs[i].ctime <= t - FreshWindow}

(* C4: the scan selects a file only among the image files created within   *)
(* the freshness window, raises DownloadError exactly when there is none   *)
(* (older image files do not count), and selects one of newest creation    *)
(* time when several qualify.                                              *)
C4_ScanFreshNewest ==
    lastScan.ran =>
        LET fs == lastScan.files
            C == Fresh(fs, lastScan.dirs, lastScan.now)
        IN  /\ (C = {}) <=> (lastScan.out = "DownloadError")
            /\ C # {} =>
                 /\ lastScan.chosen \in C
                 /\ \A j \in C : fs[j].ctime <= fs[lastScan.chosen].ctime

(* C4 witness: a scan that chose among several fresh files of different    *)
(* age while a stale image file was present too                            *)
C4_Witness ==
    /\ lastScan.ran
    /\ LET fs == lastScan.files
           C == Fresh(fs, lastScan.dirs, lastScan.now)
       IN  /\ \E i, j \in C : fs[i].ctime < fs[j].ctime
           /\ Stale(fs, lastScan.dirs, lastScan.now) # {}
           /\ lastScan.out = "path"

IsGeneratedName(p) == p.kind = "generated"

(* C5 as stated: every returned path is in the output directory and has a  *)
(* generated_<hex> name.                                                   *)
C5_Original ==
    dl_result.status = "path" =>
        dl_result.path.dir = OutDir /\ IsGeneratedName(dl_result.path)

(* C5 amended: every returned path names a file in the output directory;   *)
(* a path produced by the direct fetch, or by moving a fresh file found    *)
(* outside the output directory, has a generated_<hex>.png name; a fresh   *)
(* file already in the output directory is returned under its own name.    *)
C5_InOutputDir ==
    dl_result.status = "path" =>
        LET p == dl_result.path
            last == dl_trace[Len(dl_trace)].tier
            src == lastScan.files[lastScan.chosen]
        IN  /\ p.dir = OutDir
            /\ \E i \in 1..Len(files) : PathOf(files[i]) = p
            /\ last = "direct" => IsGeneratedName(p) /\ p.ext = "png"
            /\ last # "direct" =>
                 IF src.dir # OutDir
                 THEN IsGeneratedName(p) /\ p.ext = "png"
                      /\ \A i \in 1..Len(lastScan.files) :
                           PathOf(lastScan.files[i]) # p
                 ELSE p = PathOf(src)

(* C5 witness: the scan moved a file from an OS download directory *)
C5_Witness ==
    /\ dl_result.status = "path"
    /\ lastScan.ran
    /\ lastScan.chosen > 0
    /\ lastScan.files[lastScan.chosen].dir # OutDir
    /\ dl_trace[Len(dl_trace)].tier = "scan"

----------------------------------------------------------------------------
(* Properties of the orchestrators *)

WfErrors == 1..Len(wf_errors)
InPaths(img) == \E q \in 1..Len(wf_result.paths) : wf_result.paths[q] = img
DomainErrorRaised == \E k \in WfErrors : wf_errors[k].cls \in DomainClasses
HasText(t) == t.message # ""
IsFailure(r) == r.kind = "result" /\ ~r.success /\ HasText(r.error_message)

(* C6: when generation of image k fails after images 1..k-1 were produced, *)
(* the result returned for the request still holds the paths of 1..k-1.    *)
C6_PartialProgressKept ==
    (wf_pc = "done" /\ wf_result.kind = "result") =>
        \A k \in WfErrors :
            wf_errors[k].phase = "generate" =>
                \A j \in 1..Len(wf_images) :
                    wf_images[j] < wf_errors[k].img => InPaths(wf_images[j])

(* C7 as stated: a domain error raised in any phase makes execute() return *)
(* success=false with a non-empty error message.                           *)
C7_Original ==
    (wf_pc = "done" /\ DomainErrorRaised) => IsFailure(wf_result)

(* C7 amended: a domain error never propagates out of execute(); a         *)
(* strategy returns success=false with a non-empty message on any domain   *)
(* error; the use case returns success=false with a non-empty message      *)
(* exactly when browser start or analysis failed or no image at all was    *)
(* produced, and success=true with the produced images otherwise.          *)
C7_DomainErrorsHandled ==
    wf_pc = "done" =>
        /\ wf_result.kind = "exception" => wf_result.exc \notin DomainClasses
        /\ (wf_kind # "use_case" /\ DomainErrorRaised) => IsFailure(wf_result)
        /\ wf_kind = "use_case" =>
             /\ wf_result.kind = "result"
             /\ wf_result.success <=>
                  /\ \A k \in WfErrors : wf_errors[k].phase = "generate"
                  /\ wf_images # <<>>
             /\ wf_result.success => wf_result.paths = wf_images
             /\ ~wf_result.success => HasText(wf_result.error_message)

(* C7 witness: a strategy turned the DownloadError of a later image into a *)
(* failure result                                                          *)
C7_Witness ==
    /\ wf_pc = "done"
    /\ wf_kind = "analyze_generate"
    /\ \E k \in WfErrors : wf_errors[k].cls = "DownloadError" /\ wf_errors[k].img > 1
    /\ IsFailure(wf_result)

Guarded == ~(wf_kind = "direct" /\ ~wf_prompt)

(* C8: when an execution that entered its try block has terminated, with a *)
(* success result, a failure result or a propagating exception, the        *)
(* finally block has called stop() exactly once, the browser is not        *)
(* running, and what the try block produced is what the caller gets even   *)
(* when quitting the driver threw.                                         *)
C8_CleanupStopsBrowser ==
    /\ (wf_pc = "done" /\ Guarded) =>
          /\ wf_stops = 1
          /\ ~IsRunning(browser["service"])
          /\ wf_result = wf_outcome
          /\ wf_result.kind \in {"result", "exception"}
    /\ (wf_pc # "done" \/ ~Guarded) => wf_stops = 0

(* C8 witness: an exception propagates and quitting the driver threw *)
C8_Witness ==
    /\ wf_pc = "done"
    /\ wf_result.kind = "exception"
    /\ wf_stops = 1
    /\ browser["service"].live # {}

----------------------------------------------------------------------------
(* Properties of the browser objects *)

(* C9: stop() never raises and leaves the browser not running; on a        *)
(* browser that is not running it changes nothing; a second stop changes   *)
(* nothing after the first; start() on a running browser neither raises    *)
(* nor creates a driver.                                                   *)
C9_StartStopIdempotent ==
    /\ br_last.op = "stop" =>
          /\ ~br_last.raised
          /\ ~IsRunning(browser[br_last.obj])
          /\ ~IsRunning(br_last.before) => browser[br_last.obj] = br_last.before
    /\ (br_last.op = "start" /\ IsRunning(br_last.before)) =>
          /\ ~br_last.raised
          /\ browser[br_last.obj] = br_last.before
    /\ \A o \in BrowserObjs, q1 \in BOOLEAN, q2 \in BOOLEAN :
          LET once == StopBrowser(browser[o], q1).b IN
          StopBrowser(once, q2).b = once

(* C9 witness: stop() called on a browser an earlier stop() has stopped,   *)
(* whose quit had thrown                                                   *)
C9_Witness ==
    /\ br_last.op = "stop"
    /\ ~IsRunning(br_last.before)
    /\ br_last.before.live # {}

----------------------------------------------------------------------------
(* Properties of the navigator *)

Matches(look) == \E i \in DOMAIN look : look[i] = "present"

(* C10: is_logged_in never raises; it returns true when some input-surface *)
(* selector matches, sign-in indicators notwithstanding; otherwise false,  *)
(* decided by a sign-in indicator if one matches, else by the URL being on *)
(* the auth domain, else by default; a lookup that throws is skipped.      *)
C10_OrderedEvidence ==
    nav_result.called =>
        /\ ~nav_result.raised
        /\ nav_result.value <=> Matches(page.prompt)
        /\ Matches(page.prompt) => nav_result.reason = "prompt"
        /\ (~Matches(page.prompt) /\ Matches(page.login)) =>
              nav_result.reason = "login_indicator"
        /\ (~Matches(page.prompt) /\ ~Matches(page.login)) =>
              nav_result.reason = CASE OnAuthDomain(page.url) -> "auth_url"
                                    [] page.url = "throws" -> "error"
                                    [] OTHER -> "default"

(* C10 witness: the first input-surface lookup throws, a later one matches *)
(* and a sign-in indicator is present as well                              *)
C10_Witness ==
    /\ nav_result.called
    /\ page.prompt[1] = "throws"
    /\ page.prompt[3] = "present"
    /\ Matches(page.login)
    /\ nav_result.value

OnApp(url) == url = "gemini"
SessionErrors == {NoDriverMessage, ErrorMessage, ServiceErrorMessage}

(* C11: check_session never raises; when the current URL is not on the     *)
(* target app it navigates there before checking; it returns (false,       *)
(* session-inactive) when no input-surface selector matches and a sign-in  *)
(* indicator matches; valid is true exactly when is_logged_in is true; it  *)
(* returns (false, error message) when the browser is missing or a step    *)
(* throws.                                                                 *)
C11_CheckSession ==
    nav_chk.called =>
        /\ ~nav_chk.raised
        /\ (nav_chk.fault \in {"none", "navigate"} /\ ~OnApp(nav_chk.before)) =>
              nav_chk.navigated
        /\ (nav_chk.fault = "none" /\ ~Matches(page.prompt) /\ Matches(page.login)) =>
              (~nav_chk.valid /\ nav_chk.message = InactiveMessage)
        /\ nav_chk.valid <=> (nav_chk.fault = "none" /\ IsLoggedIn(page).value)
        /\ nav_chk.fault # "none" =>
              (~nav_chk.valid /\ nav_chk.message \in SessionErrors)

(* C12: start_new_chat never raises, whatever the driver does; it clicks   *)
(* the first new-conversation selector that can be found and clicked, and  *)
(* when every selector fails it reloads the application URL and refreshes. *)
C12_NewChatNeverRaises ==
    nav_chat.called =>
        /\ ~nav_chat.raised
        /\ Clicked(nav_chat.calls) \/
             \E k \in 1..Len(nav_chat.calls) : nav_chat.calls[k].op = "get"

Finds(calls) == {k \in 1..Len(calls) : calls[k].op = "find"}

(* C13: a selector chain is tried strictly in list order and the first     *)
(* selector that yields an element is the one used: no later selector is   *)
(* consulted after a hit, and with only selectors 2 and 3 present the      *)
(* element is resolved via selector 2.  Stated for the new-conversation    *)
(* chain.                                                                  *)
C13_FirstHitWins ==
    nav_chat.called =>
        LET calls == nav_chat.calls IN
        /\ \A k \in Finds(calls) :
              calls[k].sel = Cardinality({l \in Finds(calls) : l <= k})
        /\ \A k \in Finds(calls) :
              calls[k].ok => \A l \in Finds(calls) : l <= k
        /\ (/\ nav_chat.chain[1] = "absent"
            /\ nav_chat.chain[2] # "absent"
            /\ nav_chat.chain[3] # "absent") =>
              \A k \in Finds(calls) : calls[k].sel <= 2

----------------------------------------------------------------------------
(* Properties of the uploader *)

UpEnded == up_pc \in {"returned", "send_prompt"}
AllNegative == \A k \in 1..Len(up_polls) : up_polls[k].out # "marker"

(* C14: _verify_upload polls at most 10 times, one second apart; the first *)
(* poll that sees the marker ends it with true and no poll follows; a poll *)
(* that throws counts as a negative poll.                                  *)
C14_VerifyPolls ==
    /\ Len(up_polls) <= ImageVerify
    /\ \A k \in 1..Len(up_polls) :
          up_polls[k].out = "marker" => k = Len(up_polls)
    /\ \A k \in 1..(Len(up_polls) - 1) :
          up_polls[k + 1].at - up_polls[k].at = ShortWait
    /\ up_pc = "verify" => (AllNegative /\ Len(up_polls) < ImageVerify)
    /\ UpEnded =>
          /\ Len(up_polls) >= 1
          /\ up_result.verified <=> ~AllNegative
          /\ ~up_result.verified => Len(up_polls) = ImageVerify

(* C14 witness: a throwing poll, a negative poll, then the marker on the   *)
(* third poll ends the verification                                        *)
C14_Witness ==
    /\ UpEnded
    /\ Len(up_polls) = 3
    /\ up_polls[1].out = "throws"
    /\ up_polls[3].out = "marker"
    /\ up_result.verified

(* C15: when every verification poll is negative the upload does not fail: *)
(* upload_image returns without raising, and nothing raised once polling   *)
(* has begun.                                                              *)
C15_UnverifiedUploadProceeds ==
    /\ Len(up_polls) >= 1 => (up_pc # "raised" /\ up_result.kind # "raised")
    /\ (Len(up_polls) = ImageVerify /\ AllNegative) =>
          (UpEnded /\ up_result.kind = "returned" /\ ~up_result.verified)

(* C15 witness: ten negative polls and the workflow is at send_prompt *)
C15_Witness ==
    /\ up_pc = "send_prompt"
    /\ Len(up_polls) = ImageVerify
    /\ AllNegative
    /\ up_result.kind = "returned"

----------------------------------------------------------------------------
(* Properties of the prompt manager *)

TextOf(i) == rs_in.cands[i].body
Usable(i) == rs_in.cands[i].found = "element" /\ TextOf(i) > MinResponseLen

(* C16: get_response_text returns the trimmed, thoughts-free text of the   *)
(* first candidate, in list order, whose text is longer than 10            *)
(* characters; absent, throwing and short candidates are passed over, and  *)
(* with no usable candidate it raises ResponseError.                       *)
C16_FirstLongEnoughText ==
    rs_pc = "done" =>
        /\ rs_out.kind \in {"returned", "raised"}
        /\ rs_out.kind = "returned" <=> \E i \in DOMAIN rs_in.cands : Usable(i)
        /\ rs_out.kind = "returned" =>
              /\ Usable(rs_out.via)
              /\ \A j \in 1..(rs_out.via - 1) : ~Usable(j)
              /\ rs_out.text = Text(TextOf(rs_out.via), 0)
              /\ rs_out.tried = [k \in 1..rs_out.via |-> k]
        /\ rs_out.kind = "raised" =>
              /\ rs_out.cls = "ResponseError"
              /\ rs_out.tried = [k \in 1..Len(ModelResponseVariants) |-> k]

(* C16 witness: two candidates of 10 characters, then one of 50, dressed   *)
(* with reasoning text and whitespace                                      *)
C16_Witness ==
    /\ rs_pc = "done"
    /\ TextOf(1) = 10 /\ TextOf(2) = 10 /\ TextOf(3) = 50
    /\ rs_in.thoughts = 40 /\ rs_in.pad = 1
    /\ rs_out.kind = "returned" /\ rs_out.via = 3 /\ rs_out.text = Text(50, 0)

(* C17: wait_for_response returns normally, after both of its settles,     *)
(* whatever the in-progress indicator did; one that never appeared is a    *)
(* success.                                                                *)
C17_IndicatorNeverAppearedIsSuccess ==
    rs_wait.called =>
        /\ ~rs_wait.raised
        /\ rs_wait.sleeps = <<LongWait, ResponseCheck>>
        /\ rs_pc \in {"extract", "done"}

(* C17 witness: the indicator never appeared and the text is being extracted *)
C17_Witness ==
    /\ rs_wait.called
    /\ rs_wait.indicator = "never_appeared"
    /\ ~rs_wait.raised
    /\ rs_pc = "extract"

----------------------------------------------------------------------------
(* Properties of the tool selector *)

MenuShown ==
    /\ FirstClickable(tl_in.triggers, 1) # 0
    /\ tl_in.openOk
    /\ FirstOptions(tl_in.options, 1).out = "items"
    /\ tl_in.clickOk
TextMatches == {k \in 1..Len(tl_in.items) : IsImageGeneration(tl_in.items[k])}
Least(S) == CHOOSE k \in S : \A l \in S : k <= l

(* C18: with the menu shown, the first item whose text contains an         *)
(* image-generation phrase is clicked; with no such item the 3rd item is   *)
(* clicked when there are at least three, otherwise the 1st; in each case  *)
(* exactly one item is clicked and true is returned.                       *)
C18_TextThenPosition ==
    (tl_out.called /\ MenuShown) =>
        /\ tl_out.result
        /\ Len(tl_out.clicked) = 1
        /\ tl_out.clicked[1] =
              IF TextMatches # {} THEN Least(TextMatches)
              ELSE IF Len(tl_in.items) >= 3 THEN 3 ELSE 1

(* C19: select_image_generation_tool never raises, and returns false,      *)
(* having clicked no item, when no trigger selector becomes clickable,     *)
(* when no menu items are found, or when a driver call throws.             *)
C19_ToolSelectionNonFatal ==
    tl_out.called =>
        LET trigger == FirstClickable(tl_in.triggers, 1)
            opts == FirstOptions(tl_in.options, 1)
            failed == ~tl_out.result /\ tl_out.clicked = <<>>
        IN  /\ ~tl_out.raised
            /\ trigger = 0 => failed
            /\ (trigger # 0 /\ ~tl_in.openOk) => failed
            /\ (trigger # 0 /\ tl_in.openOk /\ opts.out \in {"empty", "throws"}) => failed
            /\ ~tl_in.clickOk => failed
            /\ tl_out.result => Len(tl_out.clicked) = 1

(* C19 witness: the second trigger is clickable, the first option selector *)
(* is empty and the second raises: false is returned                       *)
C19_Witness ==
    /\ tl_out.called
    /\ tl_in.triggers[1] = "timeout" /\ tl_in.triggers[2] = "clickable"
    /\ tl_in.openOk
    /\ tl_in.options[1] = "empty" /\ tl_in.options[2] = "throws"
    /\ ~tl_out.result /\ ~tl_out.raised

----------------------------------------------------------------------------
(* Properties of the phase sequence of a request *)

(* The order the claim gives to the browser operations of one image *)
ClaimedOrder == <<"navigate", "upload", "send_analysis_prompt", "wait_for_response",
                  "extract_response", "select_tool", "send_generation_prompt",
                  "wait_for_generation", "download">>
Listed(k) == \E r \in 1..Len(ClaimedOrder) : ClaimedOrder[r] = ph_trace[k].phase
Rank(k) == CHOOSE r \in 1..Len(ClaimedOrder) : ClaimedOrder[r] = ph_trace[k].phase
Starts == {k \in 1..Len(ph_trace) : ph_trace[k].ev = "start"}
ListedStarts == {k \in Starts : Listed(k)}

(* C20: the operations of a request start in the order navigate, upload,   *)
(* send analysis prompt, wait, extract, then per image tool selection,     *)
(* send generation prompt, wait for generation, download, none skipped;    *)
(* a phase starts only when the one before it has returned; after a phase  *)
(* raises no later phase of the analysis, or of that image, starts, and    *)
(* after a failed analysis nothing starts.                                 *)
C20_PhasesInOrder ==
    /\ \A k \in ListedStarts, l \in ListedStarts :
          k < l =>
             \/ ph_trace[k].img < ph_trace[l].img
             \/ ph_trace[k].img = ph_trace[l].img /\ Rank(k) < Rank(l)
    /\ \A l \in ListedStarts :
          (Rank(l) \notin {1, 6}) =>
             /\ l > 2
             /\ ph_trace[l - 1].ev = "return"
             /\ ph_trace[l - 1].img = ph_trace[l].img
             /\ ClaimedOrder[Rank(l) - 1] = ph_trace[l - 1].phase
    /\ \A l \in Starts : l > 1 => ph_trace[l - 1].ev \in {"return", "raise"}
    /\ \A l \in Starts : ph_trace[l].img > 0 =>
          \E k \in 1..(l - 1) : /\ ph_trace[k].ev = "return"
                                /\ ph_trace[k].phase = "extract_response"
    /\ \A k \in 1..Len(ph_trace) :
          ph_trace[k].ev = "raise" =>
             \A l \in Starts : l > k =>
                (ph_trace[k].img # 0 /\ ph_trace[l].img > ph_trace[k].img)

(* C20 witness: the download of image 1 raised, and image 2 has gone       *)
(* through its phases up to the download                                   *)
C20_Witness ==
    /\ \E k \in 1..Len(ph_trace) :
          ph_trace[k] = [ev |-> "raise", img |-> 1, phase |-> "download"]
    /\ \E l \in Starts : ph_trace[l].img = 2 /\ ph_trace[l].phase = "download"

----------------------------------------------------------------------------
(* Properties of the per-image conversation reset *)

ImageStarts(i) == {k \in Starts : ph_trace[k].img = i}
ResetDone(i, l) ==
    \E k \in 1..(l - 1) :
        ph_trace[k] = [ev |-> "return", img |-> i, phase |-> "new_chat"]

(* C21: images are generated one at a time (no phase of a later image      *)
(* starts before every started phase of the earlier one has ended), and    *)
(* the first phase started for every image is the conversation reset,      *)
(* which has returned before that image's tool selection or prompt         *)
(* submission starts.                                                      *)
C21_ResetBeforeEachImage ==
    /\ \A l \in Starts : l > 1 => ph_trace[l - 1].ev \in {"return", "raise"}
    /\ \A k \in Starts, l \in Starts :
          k < l => ph_trace[k].img <= ph_trace[l].img
    /\ \A l \in Starts :
          ph_trace[l].img > 0 =>
             /\ (\A k \in ImageStarts(ph_trace[l].img) : k >= l)
                   => ph_trace[l].phase = "new_chat"
             /\ ph_trace[l].phase \in {"select_tool", "send_generation_prompt"}
                   => ResetDone(ph_trace[l].img, l)

----------------------------------------------------------------------------
(* Properties of the image count *)

(* The text is an integer between 1 and 9 *)
IsCount(text) ==
    /\ text.form = "digits"
    /\ text.sign # "-"
    /\ text.n >= MIN_COUNT /\ text.n <= MAX_COUNT
CountSettled(cls) ==
    cn_last.called =>
       /\ (cn_last.cls = "none") <=> IsCount(cn_last.text)
       /\ ~IsCount(cn_last.text) =>
             /\ cn_last.cls = cls
             /\ cn_state = "WAITING_FOR_COUNT"
             /\ ~cn_last.workflow
       /\ cn_last.workflow => cn_last.target = cn_last.text.n

(* C22 as stated: a count is accepted exactly when it is an integer from 1 *)
(* to 9; any other text is rejected with ValidationError, the             *)
(* conversation stays in WAITING_FOR_COUNT and no workflow is started.     *)
C22_Original == CountSettled("ValidationError")

(* C22: a count is accepted exactly when it is an integer from 1 to 9; any *)
(* other text (0, 10, -1, a decimal, a word) is rejected with the built-in *)
(* ValueError, the conversation stays in WAITING_FOR_COUNT and no workflow *)
(* is started; a started workflow gets the typed number as target_count.   *)
C22_CountValidated == CountSettled("ValueError")

(* C22 witness: "10" has been typed and turned down *)
C22_Witness ==
    /\ cn_last.called
    /\ cn_last.text.form = "digits" /\ cn_last.text.sign = ""
    /\ cn_last.text.n = MAX_COUNT + 1
    /\ cn_last.cls = "ValueError"
    /\ cn_last.reply = "invalid_count"
    /\ cn_state = "WAITING_FOR_COUNT"

----------------------------------------------------------------------------
(* Properties of the prompt value object *)

Construction ==
    pt_out.made.called =>
       /\ pt_out.made.ok <=> ~Blank(pt_in.text)
       /\ pt_out.made.ok =>
             IF Length(pt_in.text) > MAX_LENGTH
             THEN /\ Length(pt_out.made.text) = MAX_LENGTH
                  /\ IsPrefix(pt_out.made.text, pt_in.text)
             ELSE pt_out.made.text = pt_in.text

(* C23 as stated: construction rejects blank text only and cuts a longer   *)
(* text to its first 10,000 characters; truncate(n) returns a prompt of at *)
(* most n characters that is a prefix of the original.                     *)
C23_Original ==
    /\ Construction
    /\ pt_out.cut.called =>
          /\ pt_out.cut.ok
          /\ Length(pt_out.cut.text) <= pt_in.limit
          /\ IsPrefix(pt_out.cut.text, pt_out.made.text)

(* The number of characters text[:n] keeps of a text of length len *)
Kept(len, n) == IF n >= 0 THEN n ELSE IF len + n > 0 THEN len + n ELSE 0

(* C23: construction rejects blank text only and cuts a longer text to its *)
(* first 10,000 characters.  truncate(n) returns the prompt itself when it *)
(* has at most n characters; otherwise it keeps the first n characters     *)
(* (for a negative n: all but the last -n) and returns them as a prompt,   *)
(* a prefix of the original, unless they are all whitespace or n is 0, in  *)
(* which case it raises ValueError.                                        *)
C23_PromptConstruction ==
    /\ Construction
    /\ pt_out.cut.called =>
          LET p == pt_out.made.text
              k == Kept(Length(p), pt_in.limit)
          IN  IF Length(p) <= pt_in.limit
              THEN pt_out.cut.ok /\ pt_out.cut.text = p
              ELSE IF k <= p.lead
              THEN ~pt_out.cut.ok /\ pt_out.cut.cls = "ValueError"
              ELSE /\ pt_out.cut.ok
                   /\ Length(pt_out.cut.text) = k
                   /\ IsPrefix(pt_out.cut.text, p)

(* C23 witness: a text of 10,001 characters became a prompt of 10,000,     *)
(* which truncate(2) cut to 2                                              *)
C23_Witness ==
    /\ Length(pt_in.text) = MAX_LENGTH + 1
    /\ pt_out.made.ok /\ Length(pt_out.made.text) = MAX_LENGTH
    /\ pt_in.limit = 2
    /\ pt_out.cut.ok /\ Length(pt_out.cut.text) = 2

----------------------------------------------------------------------------
(* Properties of the download URL *)

LastEquals(url) == CHOOSE i \in 1..Len(url) :
                       url[i] = "=" /\ \A j \in (i + 1)..Len(url) : url[j] # "="

(* C24: the size parameter, the text after the last '=', is replaced by    *)
(* 's4096' and everything before it is kept; a URL with no '=' comes back  *)
(* unchanged.                                                              *)
C24_SizeParameterReplaced ==
    hq_out.called =>
       IF HasEquals(hq_in)
       THEN hq_out.url = SubSeq(hq_in, 1, LastEquals(hq_in)) \o <<"s4096">>
       ELSE hq_out.url = hq_in

----------------------------------------------------------------------------
(* Properties of the bot's use of the browser *)

----------------------------------------------------------------------------
(* Properties of generate_image *)

Called(name) == \E k \in 1..Len(gn_trace) : gn_trace[k] = name

(* C27: when the generated-image marker does not show within the timeout   *)
(* wait_for_image_generation raises ImageGenerationError, generate_image   *)
(* ends with it and download_generated_image is not called.                *)
C27_NoMarkerNoDownload ==
    (Called("wait_for_image_generation") /\ gn_in.marker # "present") =>
       /\ gn_pc = "raised"
       /\ gn_result = GnRaised("ImageGenerationError")
       /\ ~Called("download_generated_image")

(* C27 witness: the wait timed out *)
C27_Witness ==
    /\ Called("wait_for_image_generation")
    /\ gn_in.marker = "timeout"
    /\ gn_pc = "raised"

----------------------------------------------------------------------------
(* Properties of the strategies' calls *)

Strategy == wf_kind \in {"analyze_generate", "direct"}
AllSucceeded == wf_pc = "done" /\ wf_errors = <<>> /\ ~PromptMissing(wf_kind, wf_prompt)

(* C28: when no phase raised, a strategy called start() once if the        *)
(* browser was not running and not at all if it was, analyze_image once    *)
(* (AnalyzeAndGenerateStrategy) or never (DirectGenerateStrategy),         *)
(* generate_image target_count times, and returned success with the        *)
(* target_count paths in generation order and the prompt that was used.    *)
C28_CallsOnSuccess ==
    (Strategy /\ AllSucceeded) =>
       /\ wf_calls.start = (IF wf_calls.was_running THEN 0 ELSE 1)
       /\ wf_calls.analyze = (IF wf_kind = "analyze_generate" THEN 1 ELSE 0)
       /\ wf_calls.generate = wf_target
       /\ wf_result.kind = "result" /\ wf_result.success
       /\ wf_result.paths = [i \in 1..wf_target |-> i]
       /\ wf_result.extracted_prompt = PromptUsed(wf_kind)

(* C28 witness: AnalyzeAndGenerateStrategy met a running browser and made  *)
(* two images                                                              *)
C28_Witness ==
    /\ wf_kind = "analyze_generate" /\ AllSucceeded
    /\ wf_calls.was_running
    /\ wf_target = 2 /\ Len(wf_result.paths) = 2

(* C29: DirectGenerateStrategy with an empty prompt returns a failure      *)
(* saying that a prompt is required; the browser is neither started nor    *)
(* stopped and the AI service is not called.                               *)
C29_EmptyPromptRefused ==
    (wf_kind = "direct" /\ ~wf_prompt /\ wf_pc = "done") =>
       /\ wf_result.kind = "result" /\ ~wf_result.success
       /\ wf_result.error_message.message = "DirectGenerateStrategy icin prompt gerekli"
       /\ wf_calls = Calls(0, 0, 0, wf_calls.was_running)
       /\ wf_stops = 0
       /\ IsRunning(browser["service"]) = wf_calls.was_running
       /\ wf_images = <<>>

(* C29 witness: the strategy has returned on an empty prompt with the      *)
(* browser running                                                         *)
C29_Witness ==
    /\ wf_kind = "direct" /\ ~wf_prompt /\ wf_pc = "done"
    /\ wf_calls.was_running

----------------------------------------------------------------------------
(* Properties of the submitted prompts *)

(* C30: every text handed to send_prompt, the system prompt and the        *)
(* answer reused as generation prompt, is non-empty and at most 10,000     *)
(* characters long.                                                        *)
C30_SubmittedPromptsBounded ==
    \A k \in 1..Len(sb_sent) :
       /\ ~Blank(sb_sent[k])
       /\ Length(sb_sent[k]) <= MAX_LENGTH

----------------------------------------------------------------------------
(* ProcessContext under GenerateImagesUseCase.execute *)

StatusOrder == <<"PENDING", "ANALYZING", "GENERATING", "COMPLETED">>

\* the statuses so far are the first ones of the order, or fewer than all of
\* them followed by FAILED
InOrder(hist) ==
    \/ hist = SubSeq(StatusOrder, 1, Len(hist))
    \/ /\ Len(hist) >= 2
       /\ Len(hist) <= Len(StatusOrder)
       /\ hist[Len(hist)] = "FAILED"
       /\ SubSeq(hist, 1, Len(hist) - 1) = SubSeq(StatusOrder, 1, Len(hist) - 1)

CxEnded == cx_pc = "done"

CxCaught == cx_exc # NoError

\* the statement as written: the caught exception itself leaves execute,
\* and a COMPLETED context holds target_count images
C31_Original ==
    /\ cx_pc # "idle" => InOrder(cx_hist)
    /\ CxEnded /\ CxCaught =>
          /\ cx_ctx.status = "FAILED"
          /\ cx_ctx.error_message = ErrorText(cx_exc)
          /\ cx_out = CxRaised(cx_exc)
    /\ CxEnded => cx_ctx.status \in {"COMPLETED", "FAILED"}
    /\ CxEnded /\ cx_ctx.status = "COMPLETED" =>
          Len(cx_ctx.generated_images) = cx_ctx.target_count

\* C31: the status of a fresh ProcessContext driven by execute moves PENDING,
\* ANALYZING, GENERATING, COMPLETED in that order; an exception in a step sets
\* FAILED and records its text, and execute then raises: the caught exception,
\* or the one raised by the failure message the except clause sends; execute
\* ends only at COMPLETED or FAILED, returning exactly when COMPLETED; and at
\* COMPLETED the number of generated images is target_count, or 0 when
\* target_count is negative.
C31_ContextStatuses ==
    /\ cx_pc # "idle" => InOrder(cx_hist)
    /\ cx_pc # "idle" => cx_ctx.status = cx_hist[Len(cx_hist)]
    /\ CxEnded /\ CxCaught =>
          /\ cx_ctx.status = "FAILED"
          /\ cx_ctx.error_message = ErrorText(cx_exc)
          /\ cx_out \in {CxRaised(cx_exc), CxRaised(GatewayError)}
    /\ CxEnded => cx_ctx.status \in {"COMPLETED", "FAILED"}
    /\ CxEnded => (cx_ctx.status = "FAILED" <=> CxCaught)
    /\ CxEnded /\ cx_ctx.status = "COMPLETED" =>
          /\ cx_out = CxReturned(cx_ctx.generated_images)
          /\ Len(cx_ctx.generated_images) = Max(cx_ctx.target_count, 0)

\* a request for two images completed, and another one failed in generation
\* after its first image
C31_Witness ==
    /\ CxEnded
    /\ cx_ctx.target_count = 2
    /\ \/ cx_hist = StatusOrder /\ Len(cx_ctx.generated_images) = 2
       \/ /\ cx_hist = <<"PENDING", "ANALYZING", "GENERATING", "FAILED">>
          /\ cx_exc = GenerationError
          /\ Len(cx_ctx.generated_images) = 1

----------------------------------------------------------------------------
(* ProgressNotifierService after notify_complete *)

\* C33: once notify_complete has been called on a ProgressNotifierService,
\* no later notify_step, notify_image_progress or notify_complete call
\* delivers a message through the update callback; so at most one terminal
\* summary is delivered, and when one is delivered it is the last message.
C33_SilentAfterComplete ==
    /\ nt_log.mark # -1 => Len(nt_sent) = nt_log.mark
    /\ \A i \in 1..Len(nt_sent) :
          nt_sent[i].kind = "summary" => i = Len(nt_sent)

\* the summary was delivered, and a progress call and a second
\* notify_complete came after it, later than the rate limit would hold back
C33_Witness ==
    /\ Len(nt_log.calls) = 4
    /\ nt_log.calls[2] = "notify_complete"
    /\ nt_log.calls[3] = "notify_image_progress"
    /\ nt_log.calls[4] = "notify_complete"
    /\ Len(nt_sent) = 2
    /\ nt_sent[2].kind = "summary"
    /\ nt_now - nt_obj.last_update >= MinUpdateInterval

----------------------------------------------------------------------------
(* GenerateImageUseCase.execute *)

GiEnded == gi_pc \in {"report", "done"}

\* the i of the iterations in which generate_image returned, in order
Generated(tried) ==
    LET F[k \in 0..Len(tried)] ==
          IF k = 0 THEN <<>>
          ELSE IF tried[k].out = "generated" THEN Append(F[k - 1], tried[k].i)
          ELSE F[k - 1]
    IN F[Len(tried)]

\* C32: GenerateImageUseCase.execute runs the loop body for every i of
\* 1..count whatever happened to the earlier images, raises
\* ImageGenerationError exactly when no image was produced, and otherwise
\* returns between 1 and count images in the order they were generated.
C32_EveryImageAttempted ==
    GiEnded =>
        /\ Len(gi_tried) = Max(gi_in.count, 0)
        /\ \A k \in 1..Len(gi_tried) : gi_tried[k].i = k
        /\ gi_images = Generated(gi_tried)
        /\ gi_out.kind = "ImageGenerationError" <=> gi_images = <<>>
        /\ gi_out.kind \in {"ImageGenerationError", "returned"}
        /\ gi_out.kind = "returned" =>
              /\ gi_out.images = gi_images
              /\ Len(gi_out.images) >= 1
              /\ Len(gi_out.images) <= gi_in.count
              /\ \A a, b \in 1..Len(gi_out.images) :
                    a < b => gi_out.images[a] < gi_out.images[b]

\* the first of two images failed and the second was still generated
C32_Witness ==
    /\ GiEnded
    /\ gi_in.count = 2
    /\ gi_tried[1].out = "generate_failed"
    /\ gi_out = GiReturned(<<2>>)

\* C37: the completed-image count of the notifier, and the count shown in
\* any delivered progress message or failure summary, never exceeds the
\* number of images generated so far.
C37_CompletedCountBounded ==
    gi_in.notifier =>
        /\ nt_obj.completed_images <= Len(gi_images)
        /\ \A k \in 1..Len(nt_sent) : nt_sent[k].completed <= Len(gi_images)

----------------------------------------------------------------------------
(* retry_on_exception *)

Pow(b, k) == LET F[i \in 0..k] == IF i = 0 THEN 1 ELSE b * F[i - 1] IN F[k]

\* the number of events of one kind among the first p events
CountOf(log, ev, p) == Cardinality({q \in 1..p : log[q].ev = ev})

IsEvent(log, p, ev, res) == p >= 1 /\ log[p].ev = ev /\ log[p].res = res

\* C34: the wrapped function is invoked at most max_attempts times; the
\* first invocation that returns ends the wrapper with that result; on_retry
\* and a sleep of min(current delay, max_delay) happen only after a failed
\* invocation that another invocation follows, the delay being multiplied by
\* backoff after each sleep; after max_attempts failures the exception of
\* the last invocation is raised; and an exception that is not of the
\* configured types leaves the wrapper at once.
C34_RetryDiscipline ==
    /\ CountOf(rt_log, "call", Len(rt_log)) <= rt_in.max_attempts
    /\ \A p \in 1..Len(rt_log) :
          /\ rt_log[p].ev = "call" =>
                /\ rt_log[p].n = CountOf(rt_log, "call", p)
                /\ p = 1 \/ IsEvent(rt_log, p - 1, "sleep", "returned")
                /\ rt_log[p].res \in {"returned", "other"} =>
                      /\ p = Len(rt_log)
                      /\ rt_pc = "done"
                      /\ rt_out = IF rt_log[p].res = "returned"
                                  THEN RtReturned(rt_log[p].n)
                                  ELSE RtRaised(RtExc("Other", rt_log[p].n))
          /\ rt_log[p].ev = "on_retry" =>
                /\ rt_in.on_retry
                /\ IsEvent(rt_log, p - 1, "call", "configured")
                /\ rt_log[p].n = rt_log[p - 1].n
                /\ rt_log[p].n < rt_in.max_attempts
          /\ rt_log[p].ev = "sleep" =>
                /\ IF rt_in.on_retry
                   THEN IsEvent(rt_log, p - 1, "on_retry", "returned")
                   ELSE IsEvent(rt_log, p - 1, "call", "configured")
                /\ CountOf(rt_log, "call", p) < rt_in.max_attempts
                /\ rt_log[p].n =
                      Min(rt_in.delay * Pow(rt_in.backoff,
                                            CountOf(rt_log, "sleep", p) - 1),
                          rt_in.max_delay)
                /\ rt_pc = "done" => p < Len(rt_log)
    /\ rt_pc = "done" /\ rt_in.max_attempts >= 1
          /\ IsEvent(rt_log, Len(rt_log), "call", "configured") =>
                /\ rt_log[Len(rt_log)].n = rt_in.max_attempts
                /\ rt_out = RtRaised(RtExc("Configured", rt_in.max_attempts))
    /\ rt_out.kind = "raised" /\ rt_out.exc.cls = "Configured" =>
          IsEvent(rt_log, Len(rt_log), "call", "configured")

\* three failed attempts with on_retry: the sleeps were 2 and min(4, 3)
C34_Witness ==
    /\ rt_in = [max_attempts |-> 3, delay |-> 2, backoff |-> 2, max_delay |-> 3,
                on_retry |-> TRUE]
    /\ rt_out = RtRaised(RtExc("Configured", 3))
    /\ Len(rt_log) = 7
    /\ rt_log[3] = RtEvent("sleep", 2, "returned")
    /\ rt_log[6] = RtEvent("sleep", 3, "returned")

----------------------------------------------------------------------------
(* GeminiAIService after the browser was restarted *)

\* C35: every browser operation a method of GeminiAIService issues through
\* its sub-modules, also after the browser was stopped and started again,
\* is made on the browser service's current driver, which is live.
C35_OperationsOnCurrentDriver ==
    ~sv_last.raised =>
        \A d \in sv_last.targets : d = sv_last.current /\ d \in sv_last.live

----------------------------------------------------------------------------
(* The files returned for the images of one request *)

\* C36: the paths download() returns for different images of one request
\* are different files, and none of them is the request's uploaded photo.
C36_DistinctArtifacts ==
    /\ \A a, b \in 1..Len(rq_paths) : a # b => rq_paths[a] # rq_paths[b]
    /\ \A a \in 1..Len(rq_paths) : rq_paths[a] # PathOf(SourceFile)

----------------------------------------------------------------------------
(* generate_image when the tool selection fails *)

\* C38: when select_image_generation_tool returns false, generate_image
\* does not send the prompt and ends with ImageGenerationError.
C38_PromptOnlyAfterToolSelected ==
    (Called("select_image_generation_tool") /\ ~gn_in.tool) =>
       /\ ~Called("send_prompt")
       /\ gn_pc \in {"returned", "raised"} =>
             gn_result = GnRaised("ImageGenerationError")

----------------------------------------------------------------------------
(* wait_for_response when the indicator does not go away *)

\* C39: when the in-progress indicator is still present as the timeout of
\* wait_for_response elapses, wait_for_response raises ResponseError and
\* get_response_text is not called.
C39_NoExtractionWhileStreaming ==
    (rs_wait.called /\ rs_wait.indicator = "timeout") =>
       /\ rs_wait.raised
       /\ rs_pc = "raised"
       /\ rs_out = NoResponse

----------------------------------------------------------------------------
(* The clicks of one download() call *)

\* C40: during one download() call the download button is clicked at most
\* once; after a click whose scan fails no further selector is clicked.
C40_AtMostOneClick == dl_clicks <= 1

====
